---------------------------- MODULE Spec2Model ----------------------------
(***************************************************************************)
(* fsnotify: file system notifications.                                    *)
(*                                                                         *)
(* The module models                                                       *)
(*   - the event pipeline (newPipeline, processEvent and its steps),       *)
(*   - the dispatcher of the pipeline revision (forwardEvents) and of the  *)
(*     filter-flag revision (purgeEvents),                                 *)
(*   - the Windows backend (watch, removeWatch, watchDirectory, Close),    *)
(*   - the BSD backend (readEvents, Close).                                *)
(*                                                                         *)
(* Strings are sequences of one-character strings, so that filepath.Base,  *)
(* strings.Split and filepath.Match are computed character by character.   *)
(***************************************************************************)
EXTENDS Integers, Sequences, FiniteSets, TLC

(***************************************************************************)
(* Bounds of the model.                                                    *)
(***************************************************************************)
\* longest event path of the name-filter specification
MaxPathLen == 4
\* largest trigger mask of the trigger-filter specification (16 is a stray bit)
MaxTriggerMask == 16
\* clock ticks per second, and the last tick of the clock
TicksPerSecond == 2
MaxTime == 5
\* events processed by one pipeline in the throttle specification
MaxTrace == 3
\* calls of the watcher's operations by the first goroutine of the user
MaxCalls == 1
\* raw notifications read by the backend of the Windows build and of the build
\* with the pipelines
MaxRaw == 2
\* changes of the file system in the BSD build
MaxChanges == 1
\* the largest mask of a native notification (the masks have 12 bits)
MaxMask == 4095

(***************************************************************************)
(* Characters and strings.                                                 *)
(***************************************************************************)
Separator == "/"

\* the byte value of a character, for the ranges of a character class
Code(c) ==
  CASE c = "*" -> 42 [] c = "," -> 44 [] c = "-" -> 45 [] c = "." -> 46
    [] c = "/" -> 47 [] c = "?" -> 63 [] c = "[" -> 91 [] c = "\\" -> 92
    [] c = "]" -> 93 [] c = "^" -> 94 [] c = "a" -> 97 [] c = "c" -> 99
    [] c = "d" -> 100 [] c = "g" -> 103 [] OTHER -> 122

\* s[from:] of Go, from counted from 0
Drop(s, from) == SubSeq(s, from + 1, Len(s))

HasPrefix(s, prefix) ==
  /\ Len(prefix) <= Len(s)
  /\ SubSeq(s, 1, Len(prefix)) = prefix

Contains(s, c) == \E i \in 1..Len(s) : s[i] = c

\* all strings over chars of length at most n
RECURSIVE StringsUpTo(_, _)
StringsUpTo(chars, n) ==
  IF n = 0 THEN {<<>>}
  ELSE LET shorter == StringsUpTo(chars, n - 1)
       IN shorter \cup {Append(s, c) : s \in shorter, c \in chars}

\* strings.Split(s, sep) for a one-character separator
RECURSIVE SplitFrom(_, _, _, _)
SplitFrom(s, sep, cur, acc) ==
  IF s = <<>> THEN Append(acc, cur)
  ELSE IF Head(s) = sep THEN SplitFrom(Tail(s), sep, <<>>, Append(acc, cur))
  ELSE SplitFrom(Tail(s), sep, Append(cur, Head(s)), acc)

Split(s, sep) == SplitFrom(s, sep, <<>>, <<>>)

(***************************************************************************)
(* filepath.Base: the last element of the path; trailing separators are    *)
(* removed first, the empty path gives ".", a path of separators gives "/".*)
(***************************************************************************)
RECURSIVE StripTrailingSeparators(_)
StripTrailingSeparators(path) ==
  IF Len(path) > 0 /\ path[Len(path)] = Separator
  THEN StripTrailingSeparators(SubSeq(path, 1, Len(path) - 1))
  ELSE path

\* the largest i with path[i] a separator, 0 when there is none
RECURSIVE LastSeparator(_, _)
LastSeparator(path, i) ==
  IF i = 0 THEN 0
  ELSE IF path[i] = Separator THEN i
  ELSE LastSeparator(path, i - 1)

Base(path) ==
  IF path = <<>> THEN <<".">>
  ELSE LET stripped == StripTrailingSeparators(path)
           i == LastSeparator(stripped, Len(stripped))
           last == SubSeq(stripped, i + 1, Len(stripped))
       IN IF last = <<>> THEN <<Separator>> ELSE last

\* isHidden determines if a file/path is hidden if it starts with a dot
isHidden(name) ==
  LET base == Base(name)
  IN HasPrefix(base, <<".">>) /\ base # <<".">> /\ base # <<".", ".">>

(***************************************************************************)
(* filepath.Match(pattern, name).  The result is "match", "nomatch" or     *)
(* "badpattern" (ErrBadPattern).                                           *)
(***************************************************************************)
\* scanChunk: leading stars are dropped, the chunk ends before the next star
\* that is not inside a character class
RECURSIVE SkipStars(_)
SkipStars(pattern) ==
  IF Len(pattern) > 0 /\ pattern[1] = "*" THEN SkipStars(Tail(pattern))
  ELSE pattern

RECURSIVE ChunkEnd(_, _, _)
ChunkEnd(pattern, i, inrange) ==
  IF i >= Len(pattern) THEN Len(pattern)
  ELSE LET c == pattern[i + 1]
       IN IF c = "\\"
          THEN ChunkEnd(pattern, (IF i + 1 < Len(pattern) THEN i + 2 ELSE i + 1), inrange)
          ELSE IF c = "[" THEN ChunkEnd(pattern, i + 1, TRUE)
          ELSE IF c = "]" THEN ChunkEnd(pattern, i + 1, FALSE)
          ELSE IF c = "*" /\ ~inrange THEN i
          ELSE ChunkEnd(pattern, i + 1, inrange)

scanChunk(pattern) ==
  LET unstarred == SkipStars(pattern)
      i == ChunkEnd(unstarred, 0, FALSE)
  IN [star |-> Len(pattern) > 0 /\ pattern[1] = "*",
      chunk |-> SubSeq(unstarred, 1, i),
      rest |-> Drop(unstarred, i)]

\* getEsc: one character of a character class, possibly escaped
getEsc(chunk) ==
  IF Len(chunk) = 0 \/ chunk[1] = "-" \/ chunk[1] = "]"
  THEN [err |-> TRUE, r |-> "", nchunk |-> <<>>]
  ELSE LET unescaped == IF chunk[1] = "\\" THEN Tail(chunk) ELSE chunk
       IN IF Len(unescaped) = 0
          THEN [err |-> TRUE, r |-> "", nchunk |-> <<>>]
          ELSE [err |-> Len(unescaped) = 1, r |-> unescaped[1], nchunk |-> Tail(unescaped)]

\* the ranges of a character class up to its closing bracket; r is the
\* character of the name ("" once the match has failed)
RECURSIVE ParseRanges(_, _, _, _)
ParseRanges(chunk, r, match, nrange) ==
  IF Len(chunk) > 0 /\ chunk[1] = "]" /\ nrange > 0
  THEN [err |-> FALSE, match |-> match, chunk |-> Tail(chunk)]
  ELSE LET lo == getEsc(chunk)
       IN IF lo.err THEN [err |-> TRUE, match |-> FALSE, chunk |-> <<>>]
          ELSE IF lo.nchunk[1] = "-"
          THEN LET hi == getEsc(Tail(lo.nchunk))
               IN IF hi.err THEN [err |-> TRUE, match |-> FALSE, chunk |-> <<>>]
                  ELSE ParseRanges(hi.nchunk, r,
                         match \/ (r # "" /\ Code(lo.r) <= Code(r) /\ Code(r) <= Code(hi.r)),
                         nrange + 1)
          ELSE ParseRanges(lo.nchunk, r, match \/ (r # "" /\ lo.r = r), nrange + 1)

\* matchChunk: after the match has failed the chunk is still checked to be
\* well formed, but the name is no longer read
RECURSIVE matchChunk(_, _, _)
matchChunk(chunk, s, wasFailed) ==
  IF Len(chunk) = 0
  THEN [ok |-> ~wasFailed, err |-> FALSE, rest |-> IF wasFailed THEN <<>> ELSE s]
  ELSE LET failed == wasFailed \/ Len(s) = 0
           c == chunk[1]
       IN IF c = "["
          THEN LET r == IF failed THEN "" ELSE s[1]
                   s1 == IF failed THEN s ELSE Tail(s)
                   negated == Len(chunk) > 1 /\ chunk[2] = "^"
                   ranges == ParseRanges((IF negated THEN Drop(chunk, 2) ELSE Tail(chunk)), r, FALSE, 0)
               IN IF ranges.err THEN [ok |-> FALSE, err |-> TRUE, rest |-> <<>>]
                  ELSE matchChunk(ranges.chunk, s1, failed \/ (ranges.match = negated))
          ELSE IF c = "?"
          THEN matchChunk(Tail(chunk), (IF failed THEN s ELSE Tail(s)),
                          failed \/ s[1] = Separator)
          ELSE IF c = "\\" /\ Len(chunk) = 1
          THEN [ok |-> FALSE, err |-> TRUE, rest |-> <<>>]
          ELSE LET lit == IF c = "\\" THEN Tail(chunk) ELSE chunk
               IN matchChunk(Tail(lit), (IF failed THEN s ELSE Tail(s)),
                             failed \/ lit[1] # s[1])

\* the loop of Match that retries a starred chunk after skipping i+1 bytes
RECURSIVE MatchFrom(_, _)
RECURSIVE SkipAndMatch(_, _, _, _)
SkipAndMatch(chunk, rest, name, i) ==
  IF ~(i < Len(name) /\ name[i + 1] # Separator) THEN "nomatch"
  ELSE LET m == matchChunk(chunk, Drop(name, i + 1), FALSE)
       IN IF m.ok
          THEN IF Len(rest) = 0 /\ Len(m.rest) > 0
               THEN SkipAndMatch(chunk, rest, name, i + 1)
               ELSE MatchFrom(rest, m.rest)
          ELSE IF m.err THEN "badpattern"
          ELSE SkipAndMatch(chunk, rest, name, i + 1)

MatchFrom(pattern, name) ==
  IF Len(pattern) = 0
  THEN IF Len(name) = 0 THEN "match" ELSE "nomatch"
  ELSE LET sc == scanChunk(pattern)
       IN IF sc.star /\ sc.chunk = <<>>
          THEN IF Contains(name, Separator) THEN "nomatch" ELSE "match"
          ELSE LET m == matchChunk(sc.chunk, name, FALSE)
               IN IF m.ok /\ (Len(m.rest) = 0 \/ Len(sc.rest) > 0)
                  THEN MatchFrom(sc.rest, m.rest)
                  ELSE IF m.err THEN "badpattern"
                  ELSE IF sc.star THEN SkipAndMatch(sc.chunk, sc.rest, name, 0)
                  ELSE "nomatch"

Match(pattern, name) == MatchFrom(pattern, name)


(***************************************************************************)
(* Triggers and events.                                                    *)
(***************************************************************************)
Create == 1
Modify == 2
Delete == 4
Rename == 8
allTriggers == 15

\* m & t == t, for a trigger t (one bit)
HasTrigger(m, t) == (m \div t) % 2 = 1

\* an event: its four predicates and its path
IsCreate(ev) == ev.create
IsDelete(ev) == ev.delete
IsModify(ev) == ev.modify
IsRename(ev) == ev.rename
Path(ev) == ev.path

EventsOf(paths) ==
  [create : BOOLEAN, delete : BOOLEAN, modify : BOOLEAN, rename : BOOLEAN,
   path : paths]

NoOptions ==
  [Verbose |-> FALSE, Hidden |-> FALSE, Triggers |-> 0, Pattern |-> <<>>,
   Throttle |-> FALSE, Recursive |-> FALSE]

(***************************************************************************)
(* The pipeline: newPipeline enables the steps, processEvent runs them.    *)
(***************************************************************************)
throttleLatency == 1 * TicksPerSecond

\* lastEventAt of a pipeline without entries
NoTimes == [path \in {} |-> 0]

\* a newPipeline that puts the throttle before the other steps
newPipelineThrottleFirst(opt) ==
  LET hasTriggers == opt.Triggers # allTriggers /\ opt.Triggers # 0
  IN [verbose |-> opt.Verbose,
      hidden |-> opt.Hidden,
      triggers |-> IF hasTriggers THEN opt.Triggers ELSE 0,
      patterns |-> IF opt.Pattern # <<>> THEN Split(opt.Pattern, ",") ELSE <<>>,
      lastEventAt |-> NoTimes,
      steps |-> (IF opt.Throttle THEN <<"throttleStep">> ELSE <<>>)
                \o (IF opt.Verbose THEN <<"verboseStep">> ELSE <<>>)
                \o (IF ~opt.Hidden THEN <<"hiddenStep">> ELSE <<>>)
                \o (IF opt.Recursive THEN <<"autoWatchStep">> ELSE <<>>)
                \o (IF hasTriggers THEN <<"triggerStep">> ELSE <<>>)
                \o (IF opt.Pattern # <<>> THEN <<"patternStep">> ELSE <<>>)]

\* a newPipeline that enables the trigger step for the mask 0 as well
newPipelineTriggersZero(opt) ==
  LET hasTriggers == opt.Triggers # allTriggers
  IN [verbose |-> opt.Verbose,
      hidden |-> opt.Hidden,
      triggers |-> IF hasTriggers THEN opt.Triggers ELSE 0,
      patterns |-> IF opt.Pattern # <<>> THEN Split(opt.Pattern, ",") ELSE <<>>,
      lastEventAt |-> NoTimes,
      steps |-> (IF opt.Verbose THEN <<"verboseStep">> ELSE <<>>)
                \o (IF ~opt.Hidden THEN <<"hiddenStep">> ELSE <<>>)
                \o (IF opt.Recursive THEN <<"autoWatchStep">> ELSE <<>>)
                \o (IF hasTriggers THEN <<"triggerStep">> ELSE <<>>)
                \o (IF opt.Pattern # <<>> THEN <<"patternStep">> ELSE <<>>)
                \o (IF opt.Throttle THEN <<"throttleStep">> ELSE <<>>)]

newPipeline(opt) ==
  LET hasTriggers == opt.Triggers # allTriggers /\ opt.Triggers # 0
  IN [verbose |-> opt.Verbose,
      hidden |-> opt.Hidden,
      triggers |-> IF hasTriggers THEN opt.Triggers ELSE 0,
      patterns |-> IF opt.Pattern # <<>> THEN Split(opt.Pattern, ",") ELSE <<>>,
      lastEventAt |-> NoTimes,
      steps |-> (IF opt.Verbose THEN <<"verboseStep">> ELSE <<>>)
                \o (IF ~opt.Hidden THEN <<"hiddenStep">> ELSE <<>>)
                \o (IF opt.Recursive THEN <<"autoWatchStep">> ELSE <<>>)
                \o (IF hasTriggers THEN <<"triggerStep">> ELSE <<>>)
                \o (IF opt.Pattern # <<>> THEN <<"patternStep">> ELSE <<>>)
                \o (IF opt.Throttle THEN <<"throttleStep">> ELSE <<>>)]

\* the pipeline a map lookup gives for a path without entry (the zero value)
zeroPipeline ==
  [verbose |-> FALSE, hidden |-> FALSE, triggers |-> 0, patterns |-> <<>>,
   lastEventAt |-> NoTimes, steps |-> <<>>]

\* verboseStep logs events
verboseStep(p, event) == TRUE

\* a hidden step that tests the whole path instead of its base name
hiddenStepWholePath(p, event) ==
  ~(HasPrefix(Path(event), <<".">>) /\ Path(event) # <<".">> /\ Path(event) # <<".", ".">>)

\* hiddenStep discards events for hidden files and directories
hiddenStep(p, event) == ~isHidden(Path(event))

\* autoWatchStep always forwards the event on (the call that registers the
\* watch is commented out in this revision)
autoWatchStep(p, event) == TRUE

\* a trigger step that decides on the first predicate that is true of the event
triggerStepFirstPredicate(p, event) ==
  IF IsCreate(event) THEN HasTrigger(p.triggers, Create)
  ELSE IF IsModify(event) THEN HasTrigger(p.triggers, Modify)
  ELSE IF IsDelete(event) THEN HasTrigger(p.triggers, Delete)
  ELSE IsRename(event) /\ HasTrigger(p.triggers, Rename)

\* triggerStep discards any combination of create, modify, delete, or rename events
triggerStep(p, event) ==
  \/ HasTrigger(p.triggers, Create) /\ IsCreate(event)
  \/ HasTrigger(p.triggers, Modify) /\ IsModify(event)
  \/ HasTrigger(p.triggers, Delete) /\ IsDelete(event)
  \/ HasTrigger(p.triggers, Rename) /\ IsRename(event)

\* a pattern step that matches the whole path instead of its base name
patternStepWholePath(p, event) ==
  \E i \in 1..Len(p.patterns) : Match(p.patterns[i], Path(event)) = "match"

\* a pattern step that gives up at the first malformed pattern
patternStepStopsAtBad(p, event) ==
  \E i \in 1..Len(p.patterns) :
    /\ Match(p.patterns[i], Base(Path(event))) = "match"
    /\ \A j \in 1..(i - 1) : Match(p.patterns[j], Base(Path(event))) # "badpattern"

\* patternStep discards events that don't match one of the shell file name patterns
patternStep(p, event) ==
  \E i \in 1..Len(p.patterns) : Match(p.patterns[i], Base(Path(event))) = "match"

\* a throttle that keeps one time for all paths
throttleForwardAnyPath(times, event, now) ==
  ~(\E path \in DOMAIN times : now - times[path] <= throttleLatency)

\* throttleStep: the event is forwarded unless an event of the same path was
\* forwarded at most throttleLatency ago; times is lastEventAt
throttleForward(times, event, now) ==
  ~(Path(event) \in DOMAIN times /\ now - times[Path(event)] <= throttleLatency)

\* a throttle that records the time of a rejected event as well
throttleStepRefreshes(times, event, now) ==
  [path \in DOMAIN times \cup {Path(event)} |->
     IF path = Path(event) THEN now ELSE times[path]]

throttleStep(times, event, now) ==
  IF throttleForward(times, event, now)
  THEN [path \in DOMAIN times \cup {Path(event)} |->
          IF path = Path(event) THEN now ELSE times[path]]
  ELSE times

\* one step of the pipeline: its verdict and lastEventAt afterwards
RunStep(step, p, times, event, now) ==
  CASE step = "verboseStep" -> [forward |-> verboseStep(p, event), times |-> times]
    [] step = "hiddenStep" -> [forward |-> hiddenStep(p, event), times |-> times]
    [] step = "autoWatchStep" -> [forward |-> autoWatchStep(p, event), times |-> times]
    [] step = "triggerStep" -> [forward |-> triggerStep(p, event), times |-> times]
    [] step = "patternStep" -> [forward |-> patternStep(p, event), times |-> times]
    [] step = "throttleStep" -> [forward |-> throttleForward(times, event, now),
                                 times |-> throttleStep(times, event, now)]

\* processEvent: the steps in order, aborting at the first that rejects;
\* ran is the list of the steps that ran
RECURSIVE RunSteps(_, _, _, _, _, _)
RunSteps(p, i, times, ran, event, now) ==
  IF i > Len(p.steps) THEN [forward |-> TRUE, times |-> times, ran |-> ran]
  ELSE LET r == RunStep(p.steps[i], p, times, event, now)
       IN IF ~r.forward
          THEN [forward |-> FALSE, times |-> r.times, ran |-> Append(ran, p.steps[i])]
          ELSE RunSteps(p, i + 1, r.times, Append(ran, p.steps[i]), event, now)

\* a processEvent that runs the remaining steps after a step has rejected
RECURSIVE RunAllSteps(_, _, _, _, _, _, _)
RunAllSteps(p, i, times, ran, forward, event, now) ==
  IF i > Len(p.steps) THEN [forward |-> forward, times |-> times, ran |-> ran]
  ELSE LET r == RunStep(p.steps[i], p, times, event, now)
       IN RunAllSteps(p, i + 1, r.times, Append(ran, p.steps[i]),
                      forward /\ r.forward, event, now)

processEventNoAbort(p, event, now) ==
  RunAllSteps(p, 1, p.lastEventAt, <<>>, TRUE, event, now)

processEvent(p, event, now) == RunSteps(p, 1, p.lastEventAt, <<>>, event, now)


(***************************************************************************)
(* Paths of the watcher, bit masks.                                        *)
(***************************************************************************)
\* filepath.Dir for paths without "." and ".." components: the path up to
\* its last separator, without trailing separators
Dir(path) ==
  LET prefix == SubSeq(path, 1, LastSeparator(path, Len(path)))
      stripped == StripTrailingSeparators(prefix)
  IN IF prefix = <<>> THEN <<".">>
     ELSE IF stripped = <<>> THEN <<Separator>>
     ELSE stripped

\* a & b on non-negative integers
RECURSIVE BitAnd(_, _)
BitAnd(a, b) ==
  IF a = 0 \/ b = 0 THEN 0
  ELSE 2 * BitAnd(a \div 2, b \div 2) + (IF a % 2 = 1 /\ b % 2 = 1 THEN 1 ELSE 0)

\* m[k] = v
Put(m, k, v) == [x \in DOMAIN m \cup {k} |-> IF x = k THEN v ELSE m[x]]

\* delete(m, k)
Remove(m, k) == [x \in DOMAIN m \ {k} |-> m[x]]

NoEntries == [x \in {} |-> 0]

(***************************************************************************)
(* The state of a Watcher and of its goroutines.                           *)
(***************************************************************************)
VARIABLES
  build,        \* the program: "windows", "bsd" or "pipeline"
  isClosed,     \* Watcher.isClosed
  eventChan,    \* Watcher.Event: "open" or "closed"
  errorChan,    \* Watcher.Error: "open" or "closed"
  panicked,     \* the panic that ended the program, "" when there is none
  delivered,    \* what the consumer received on Event, in order
  errorsSeen,   \* how many errors the consumer received on Error
  callers,      \* the goroutines of the user: the call each is in
  calls,        \* calls started
  results,      \* the calls that returned, with their results
  raw,          \* raw notifications read by the backend
  retired,      \* path -> the notifications read when its Delete was dispatched
  fsnFlags,     \* Watcher.fsnFlags: path -> flags
  dirWatches,   \* Watcher.dirWatches: directory -> channel
  watchChans,   \* the channels of dirWatches: "open" or "closed"
  mu,           \* Watcher.mu: 0, or the caller that holds it
  readers,      \* watchDirectory: the goroutine that reads directory changes
  forwarders,   \* watchDirectory: the goroutine that forwards to internalEvent
  quit,         \* watchDirectory: the quit channel (capacity 1)
  handles,      \* the directory handles: "open" or "closed"
  dispatcher,   \* purgeEvents / forwardEvents
  kq,           \* BSD: the kqueue descriptor: "open" or "closed"
  watches,      \* BSD: Watcher.watches: path -> descriptor
  paths,        \* BSD: Watcher.paths: descriptor -> path
  finfo,        \* BSD: Watcher.finfo: descriptor -> is a directory
  done,         \* BSD: Watcher.done (capacity 1): messages in the channel
  files,        \* BSD: the files that exist in the watched directory
  fds,          \* BSD: the open descriptors: file and registered fflags
  kpending,     \* BSD: the pending kernel events: descriptor -> fflags
  kreader,      \* BSD: readEvents
  pipelines,    \* pipeline build: Watcher.pipelines: path -> pipeline
  internalEvent, \* Watcher.internalEvent (none on BSD): "open" or "closed"
  backend       \* pipeline build: the reader of the backend, its watches, the files

(***************************************************************************)
(* A pipeline on its own: it is built from options and processes events,   *)
(* as the tests of the pipeline do.                                        *)
(***************************************************************************)
VARIABLES
  options,   \* the Options the pipeline was built from
  pipe,      \* the pipeline
  clock,     \* time.Now(), in ticks
  trace      \* the events processed so far: event, time, verdict, steps run

pipeVars == <<options, pipe, clock, trace>>

bsdVars == <<kq, watches, paths, finfo, done, files, fds, kpending, kreader>>

fwdVars == <<pipelines, internalEvent, backend>>

watcherVars ==
  <<build, isClosed, eventChan, errorChan, panicked, delivered, errorsSeen,
    callers, calls, results, raw, retired, fsnFlags, dirWatches, watchChans, mu,
    readers, forwarders, quit, handles, dispatcher, bsdVars, fwdVars>>

vars == <<pipeVars, watcherVars>>

\* p.processEvent(event) at the current time
Process(event) ==
  LET r == processEvent(pipe, event, clock)
  IN /\ pipe' = [pipe EXCEPT !.lastEventAt = r.times]
     /\ trace' = Append(trace, [event |-> event, at |-> clock,
                                forward |-> r.forward, ran |-> r.ran])
     /\ UNCHANGED <<options, clock, watcherVars>>

\* time passes
Tick ==
  /\ clock < MaxTime
  /\ clock' = clock + 1
  /\ UNCHANGED <<options, pipe, trace, watcherVars>>

\* the program is not the BSD build
NoBsd ==
  /\ kq = "none"
  /\ watches = NoEntries
  /\ paths = NoEntries
  /\ finfo = NoEntries
  /\ done = 0
  /\ files = {}
  /\ fds = NoEntries
  /\ kpending = NoEntries
  /\ kreader = [pc |-> "none"]

\* the program is not the build with the pipelines
NoForward ==
  /\ pipelines = NoEntries
  /\ internalEvent = "none"
  /\ backend = [pc |-> "none"]

\* no watcher has been created
NoWatcher ==
  /\ build = "none"
  /\ isClosed = FALSE
  /\ eventChan = "open"
  /\ errorChan = "open"
  /\ panicked = ""
  /\ delivered = <<>>
  /\ errorsSeen = 0
  /\ callers = <<>>
  /\ calls = 0
  /\ results = <<>>
  /\ raw = 0
  /\ retired = NoEntries
  /\ fsnFlags = NoEntries
  /\ dirWatches = NoEntries
  /\ watchChans = <<>>
  /\ mu = 0
  /\ readers = <<>>
  /\ forwarders = <<>>
  /\ quit = <<>>
  /\ handles = <<>>
  /\ dispatcher = [pc |-> "none"]
  /\ NoBsd
  /\ NoForward

InitPipe(opts) ==
  /\ options \in opts
  /\ pipe = newPipeline(options)
  /\ clock = 0
  /\ trace = <<>>
  /\ NoWatcher

(***************************************************************************)
(* Trigger filter: every trigger mask, every combination of predicates.    *)
(***************************************************************************)
TriggerOptions ==
  [Verbose : {FALSE}, Hidden : BOOLEAN, Triggers : 0..MaxTriggerMask,
   Pattern : {<<>>, <<"*", ".", "g">>}, Throttle : {FALSE}, Recursive : BOOLEAN]

TriggerEvents == EventsOf({<<"g">>, <<".", "c">>})

ProcessTrigger ==
  /\ Len(trace) < 1
  /\ \E event \in TriggerEvents : Process(event)

InitTrigger == InitPipe(TriggerOptions)
NextTrigger == ProcessTrigger
SpecTrigger == InitTrigger /\ [][NextTrigger]_vars

\* the triggers of a mask, and the predicates that are true of an event
TriggersOf(m) == {t \in {Create, Modify, Delete, Rename} : HasTrigger(m, t)}

PredicatesOf(event) ==
  (IF event.create THEN {Create} ELSE {})
  \cup (IF event.modify THEN {Modify} ELSE {})
  \cup (IF event.delete THEN {Delete} ELSE {})
  \cup (IF event.rename THEN {Rename} ELSE {})

\* only the trigger filter can be active
OnlyTriggers(opt) == opt.Hidden /\ opt.Pattern = <<>> /\ ~opt.Throttle

\* C2: with only the trigger filter configured, an event is forwarded iff
\* the mask is all-triggers or 0, or a predicate true of the event is in
\* the mask
TriggerFilterCorrect ==
  \A i \in DOMAIN trace :
    OnlyTriggers(options) =>
      (trace[i].forward <=>
         \/ options.Triggers \in {0, allTriggers}
         \/ PredicatesOf(trace[i].event) \cap TriggersOf(options.Triggers) # {})

\* an event with two predicates, one of them in the mask, was forwarded,
\* by a mask that is neither all-triggers nor 0
TriggerFilterWitness ==
  /\ trace # <<>>
  /\ OnlyTriggers(options)
  /\ options.Triggers = Delete + Modify
  /\ PredicatesOf(trace[1].event) = {Create, Modify}
  /\ trace[1].forward


(***************************************************************************)
(* Name filters (hidden files, patterns): every path up to a length.       *)
(***************************************************************************)
PathChars == {".", "/", "g", "c"}

NamePaths == StringsUpTo(PathChars, MaxPathLen)

NamePatterns ==
  { <<>>,
    <<"*", ".", "g">>,
    <<"*", ".", "g", ",", "*", ".", "c">>,
    <<"?">>,
    <<"g", "*">>,
    <<".", "*">>,
    <<"*">>,
    <<"g", ",", "?", "?", "c">> }

NameOptions ==
  [Verbose : {FALSE}, Hidden : BOOLEAN, Triggers : {0, allTriggers, Create},
   Pattern : NamePatterns, Throttle : {FALSE}, Recursive : {FALSE}]

NameEvents ==
  {[create |-> c, delete |-> FALSE, modify |-> ~c, rename |-> FALSE, path |-> path] :
     c \in BOOLEAN, path \in NamePaths}

ProcessName ==
  /\ Len(trace) < 1
  /\ \E event \in NameEvents : Process(event)

InitName == InitPipe(NameOptions)
NextName == ProcessName
SpecName == InitName /\ [][NextName]_vars

\* the leaf component of a path: its last non-empty component, <<>> when
\* the path has none
IsComponent(c) == c # <<>>

LeafOf(path) ==
  LET components == SelectSeq(Split(path, Separator), IsComponent)
  IN IF components = <<>> THEN <<>> ELSE components[Len(components)]

BeginsWithDot(name) == name # <<>> /\ name[1] = "."

\* a glob of stars, question marks and literal characters matches a name
RECURSIVE GlobMatches(_, _)
GlobMatches(glob, name) ==
  IF glob = <<>> THEN name = <<>>
  ELSE IF Head(glob) = "*"
  THEN \E k \in 0..Len(name) :
         /\ \A i \in 1..k : name[i] # Separator
         /\ GlobMatches(Tail(glob), Drop(name, k))
  ELSE /\ name # <<>>
       /\ IF Head(glob) = "?" THEN Head(name) # Separator ELSE Head(name) = Head(glob)
       /\ GlobMatches(Tail(glob), Tail(name))

TriggersInactive(opt) == opt.Triggers \in {0, allTriggers}

\* C3: with Hidden = false (and no other filter) an event is rejected iff
\* the leaf of its path begins with a dot and is neither "." nor "..";
\* with Hidden = true (and no other filter) no event is rejected
HiddenFilterCorrect ==
  \A i \in DOMAIN trace :
    (TriggersInactive(options) /\ options.Pattern = <<>> /\ ~options.Throttle) =>
      LET leaf == LeafOf(trace[i].event.path)
      IN ~trace[i].forward <=>
           /\ ~options.Hidden
           /\ BeginsWithDot(leaf)
           /\ leaf # <<".">>
           /\ leaf # <<".", ".">>

\* a hidden file inside a visible folder was rejected
HiddenFilterWitness ==
  /\ trace # <<>>
  /\ ~options.Hidden /\ TriggersInactive(options) /\ options.Pattern = <<>>
  /\ trace[1].event.path = <<"g", "/", ".", "c">>
  /\ ~trace[1].forward

\* C4: with a non-empty Pattern (and no other filter) an event whose path
\* has a leaf is accepted iff the leaf matches one of the comma-separated
\* globs; with an empty Pattern no event is rejected
PatternFilterCorrect ==
  \A i \in DOMAIN trace :
    (TriggersInactive(options) /\ options.Hidden /\ ~options.Throttle) =>
      LET leaf == LeafOf(trace[i].event.path)
          globs == Split(options.Pattern, ",")
      IN IF options.Pattern = <<>> THEN trace[i].forward
         ELSE leaf # <<>> =>
                (trace[i].forward <=>
                   \E k \in DOMAIN globs : GlobMatches(globs[k], leaf))

\* the second glob of the list matched the leaf of a path in a folder
PatternFilterWitness ==
  /\ trace # <<>>
  /\ options.Hidden /\ TriggersInactive(options)
  /\ options.Pattern = <<"*", ".", "g", ",", "*", ".", "c">>
  /\ trace[1].event.path = <<"g", "/", ".", "c">>
  /\ trace[1].forward


(***************************************************************************)
(* Throttle: a few events of two paths, at increasing times.               *)
(***************************************************************************)
ThrottleOptions ==
  [Verbose : {FALSE}, Hidden : {TRUE}, Triggers : {0, Modify},
   Pattern : {<<>>}, Throttle : {TRUE}, Recursive : {FALSE}]

ThrottleEvents ==
  {[create |-> c, delete |-> FALSE, modify |-> ~c, rename |-> FALSE, path |-> path] :
     c \in BOOLEAN, path \in {<<"g">>, <<"c">>}}

ProcessThrottle ==
  /\ Len(trace) < MaxTrace
  /\ \E event \in ThrottleEvents : Process(event)

InitThrottle == InitPipe(ThrottleOptions)
NextThrottle == ProcessThrottle \/ Tick
SpecThrottle == InitThrottle /\ [][NextThrottle]_vars

OneSecond == TicksPerSecond

\* the events before the i-th that had its path and were forwarded
ForwardedBefore(i) ==
  {j \in 1..(i - 1) : trace[j].event.path = trace[i].event.path /\ trace[j].forward}

LastOf(indices) == CHOOSE j \in indices : \A k \in indices : k <= j

\* C5: with Throttle = true (and no other filter) the first event of a path
\* is forwarded, whatever was forwarded for other paths, and an event that
\* arrives within one second of the last forwarded event of its path is
\* rejected
ThrottleCorrect ==
  \A i \in DOMAIN trace :
    (options.Throttle /\ TriggersInactive(options) /\ options.Hidden
       /\ options.Pattern = <<>>) =>
      /\ (\A j \in 1..(i - 1) : trace[j].event.path # trace[i].event.path)
           => trace[i].forward
      /\ (/\ ForwardedBefore(i) # {}
          /\ trace[i].at - trace[LastOf(ForwardedBefore(i))].at <= OneSecond)
           => ~trace[i].forward

\* an event of path g was forwarded, a second one a second later was
\* rejected, and the first event of path c in between was forwarded
ThrottleWitness ==
  /\ Len(trace) = 3
  /\ options.Throttle /\ TriggersInactive(options)
  /\ trace[1].event.path = <<"g">> /\ trace[1].forward
  /\ trace[2].event.path = <<"c">> /\ trace[2].forward
  /\ trace[3].event.path = <<"g">> /\ ~trace[3].forward
  /\ trace[3].at - trace[1].at = OneSecond


(***************************************************************************)
(* The Windows backend with the filter-flag dispatcher (purgeEvents).      *)
(***************************************************************************)
FSN_CREATE == 1
FSN_MODIFY == 2
FSN_DELETE == 4
FSN_RENAME == 8
FSN_CLOSE_WRITE == 16
FSN_ALL == 31

sys_FS_ATTRIB == 4
sys_FS_CREATE == 256
sys_FS_DELETE == 512
sys_FS_DELETE_SELF == 1024
sys_FS_MODIFY == 2
sys_FS_MOVE == 192
sys_FS_MOVED_FROM == 64
sys_FS_MOVED_TO == 128
sys_FS_MOVE_SELF == 2048

HasMask(e, bits) == BitAnd(e.mask, bits) = bits

WinIsCreate(e) == HasMask(e, sys_FS_CREATE)
WinIsDelete(e) == HasMask(e, sys_FS_DELETE) \/ HasMask(e, sys_FS_DELETE_SELF)
WinIsModify(e) == HasMask(e, sys_FS_MODIFY) \/ HasMask(e, sys_FS_ATTRIB)
\* IsRename that asks for both bits of sys_FS_MOVE
WinIsRenameBothBits(e) == HasMask(e, sys_FS_MOVE) \/ HasMask(e, sys_FS_MOVE_SELF)
WinIsRename(e) ==
  \/ HasMask(e, sys_FS_MOVE) \/ HasMask(e, sys_FS_MOVE_SELF)
  \/ HasMask(e, sys_FS_MOVED_FROM) \/ HasMask(e, sys_FS_MOVED_TO)
\* the Windows FileEvent has no close-write mask
WinIsCloseWrite(e) == FALSE

\* the mask watchDirectory gives to an action of ReadDirectoryChanges
WinMaskOf(action) ==
  CASE action = "FILE_ACTION_ADDED" -> sys_FS_CREATE
    [] action = "FILE_ACTION_REMOVED" -> sys_FS_DELETE_SELF
    [] action = "FILE_ACTION_MODIFIED" -> sys_FS_MODIFY
    [] action = "FILE_ACTION_RENAMED_OLD_NAME" -> sys_FS_MOVE_SELF
    [] action = "FILE_ACTION_RENAMED_NEW_NAME" -> sys_FS_MOVE_SELF
    [] OTHER -> 0

\* the actions that are read
WinActions == {"FILE_ACTION_REMOVED", "FILE_ACTION_MODIFIED"}

\* the paths the user watches and unwatches, the flags, the file names
WinPaths == {<<"d">>}
WinRemovePaths == {<<"d">>, <<".">>}
WinFlags == {FSN_ALL, FSN_DELETE}
WinNames == {<<"f">>}

\* the goroutines of the user: goroutine 1 makes one call after the other; a
\* goroutine of Closers runs w.Close(), whenever it likes
Callers == {1, 2}
Closers == {2}
CloserCalls == <<"Close">>

\* an event carries the number of the raw notification it was made from
NoEvent == [mask |-> 0, Name |-> <<>>, id |-> 0]
\* started: how many calls had returned when the call started
Idle == [pc |-> "idle", op |-> "", path |-> <<>>, flags |-> 0, started |-> 0]

\* caller c starts a call
CallStarts(c) ==
  /\ callers[c].pc = "idle"
  /\ IF c \in Closers
     THEN /\ Cardinality({i \in DOMAIN results : results[i].caller = c}) < Len(CloserCalls)
          /\ UNCHANGED calls
     ELSE calls < MaxCalls /\ calls' = calls + 1

\* the call of caller c returns
Return(c, result) ==
  /\ callers' = [callers EXCEPT ![c] = Idle]
  /\ results' = Append(results, [caller |-> c, op |-> callers[c].op,
                                 path |-> callers[c].path, result |-> result,
                                 started |-> callers[c].started])

Goto(c, pc) ==
  /\ callers' = [callers EXCEPT ![c].pc = pc]
  /\ UNCHANGED results

\* NewWatcher
InitWindows ==
  /\ options = NoOptions /\ pipe = zeroPipeline /\ clock = 0 /\ trace = <<>>
  /\ build = "windows"
  /\ isClosed = FALSE
  /\ eventChan = "open"
  /\ errorChan = "open"
  /\ panicked = ""
  /\ delivered = <<>>
  /\ errorsSeen = 0
  /\ callers = [c \in Callers |-> Idle]
  /\ calls = 0
  /\ results = <<>>
  /\ raw = 0
  /\ retired = NoEntries
  /\ fsnFlags = NoEntries
  /\ dirWatches = NoEntries
  /\ watchChans = <<>>
  /\ mu = 0
  /\ readers = <<>>
  /\ forwarders = <<>>
  /\ quit = <<>>
  /\ handles = <<>>
  /\ dispatcher = [pc |-> "range", ev |-> NoEvent, found |-> FALSE, flags |-> 0]
  /\ internalEvent = "open"
  /\ pipelines = NoEntries
  /\ backend = [pc |-> "none"]
  /\ NoBsd

\* WatchFlags: the flags are stored, then watch runs
WinCallWatchFlags(c, path, flags) ==
  /\ CallStarts(c)
  /\ fsnFlags' = Put(fsnFlags, path, flags)
  /\ retired' = Remove(retired, path)
  /\ callers' = [callers EXCEPT ![c] = [pc |-> "watch", op |-> "WatchFlags",
                                        path |-> path, flags |-> flags,
                                        started |-> Len(results)]]
  /\ UNCHANGED <<pipeVars, build, isClosed, eventChan, errorChan, panicked,
                 delivered, errorsSeen, results, raw, dirWatches, watchChans,
                 mu, readers, forwarders, quit, handles, dispatcher>>

\* watch: a closed watcher gives an error
WinWatchCheck(c) ==
  /\ callers[c].pc = "watch"
  /\ IF isClosed THEN Return(c, "watcher is closed") ELSE Goto(c, "watchLock")
  /\ UNCHANGED <<pipeVars, retired, build, isClosed, eventChan, errorChan, panicked,
                 delivered, errorsSeen, calls, raw, fsnFlags, dirWatches,
                 watchChans, mu, readers, forwarders, quit, handles, dispatcher>>

\* watch: w.mu.Lock()
WinWatchLock(c) ==
  /\ callers[c].pc = "watchLock"
  /\ mu = 0
  /\ mu' = c
  /\ Goto(c, "watchBody")
  /\ UNCHANGED <<pipeVars, retired, build, isClosed, eventChan, errorChan, panicked,
                 delivered, errorsSeen, calls, raw, fsnFlags, dirWatches,
                 watchChans, readers, forwarders, quit, handles, dispatcher>>

\* watch that returns nil when CreateFile fails
WinWatchBodyNoError(c) ==
  /\ callers[c].pc = "watchBody"
  /\ LET path == callers[c].path
         dir == Dir(path)
     IN IF dir \in DOMAIN dirWatches
        THEN /\ mu' = 0
             /\ Return(c, "nil")
             /\ UNCHANGED <<dirWatches, watchChans, readers, forwarders, quit, handles>>
        ELSE \E created \in BOOLEAN :
               IF ~created
               THEN /\ Return(c, "nil")
                    /\ UNCHANGED <<mu, dirWatches, watchChans, readers,
                                   forwarders, quit, handles>>
               ELSE /\ dirWatches' = Put(dirWatches, dir, Len(watchChans) + 1)
                    /\ watchChans' = Append(watchChans, "open")
                    /\ readers' = Append(readers, [pc |-> "read", ev |-> NoEvent,
                                                   path |-> path])
                    /\ forwarders' = Append(forwarders, [pc |-> "select", ev |-> NoEvent])
                    /\ quit' = Append(quit, 0)
                    /\ handles' = Append(handles, "open")
                    /\ mu' = 0
                    /\ Return(c, "nil")
  /\ UNCHANGED <<pipeVars, retired, build, isClosed, eventChan, errorChan, panicked,
                 delivered, errorsSeen, calls, raw, fsnFlags, dispatcher>>

\* watch, with the lock: a directory that has no channel yet is opened
\* (CreateFile), its channel is stored and watchDirectory starts the two
\* goroutines; a failure of CreateFile returns with the lock held
WinWatchBody(c) ==
  /\ callers[c].pc = "watchBody"
  /\ LET path == callers[c].path
         dir == Dir(path)
     IN IF dir \in DOMAIN dirWatches
        THEN /\ mu' = 0
             /\ Return(c, "nil")
             /\ UNCHANGED <<dirWatches, watchChans, readers, forwarders, quit, handles>>
        ELSE \E created \in BOOLEAN :
               IF ~created
               THEN /\ Return(c, "CreateFile")
                    /\ UNCHANGED <<mu, dirWatches, watchChans, readers,
                                   forwarders, quit, handles>>
               ELSE /\ dirWatches' = Put(dirWatches, dir, Len(watchChans) + 1)
                    /\ watchChans' = Append(watchChans, "open")
                    /\ readers' = Append(readers, [pc |-> "read", ev |-> NoEvent,
                                                   path |-> path])
                    /\ forwarders' = Append(forwarders, [pc |-> "select", ev |-> NoEvent])
                    /\ quit' = Append(quit, 0)
                    /\ handles' = Append(handles, "open")
                    /\ mu' = 0
                    /\ Return(c, "nil")
  /\ UNCHANGED <<pipeVars, retired, build, isClosed, eventChan, errorChan, panicked,
                 delivered, errorsSeen, calls, raw, fsnFlags, dispatcher>>

\* RemoveWatch: the flags are deleted, then removeWatch runs
WinCallRemoveWatch(c, path) ==
  /\ CallStarts(c)
  /\ fsnFlags' = Remove(fsnFlags, path)
  /\ callers' = [callers EXCEPT ![c] = [pc |-> "removeWatch", op |-> "RemoveWatch",
                                        path |-> path, flags |-> 0,
                                        started |-> Len(results)]]
  /\ UNCHANGED <<pipeVars, retired, build, isClosed, eventChan, errorChan, panicked,
                 delivered, errorsSeen, results, raw, dirWatches, watchChans,
                 mu, readers, forwarders, quit, handles, dispatcher>>

\* removeWatch: the lock is taken and is not released on any return
WinRemoveWatch(c) ==
  /\ callers[c].pc = "removeWatch"
  /\ mu = 0
  /\ mu' = c
  /\ LET path == callers[c].path
     IN IF path \in DOMAIN dirWatches
        THEN IF watchChans[dirWatches[path]] = "closed"
             THEN /\ panicked' = "close of closed channel: watch"
                  /\ UNCHANGED <<callers, results, dirWatches, watchChans>>
             ELSE /\ watchChans' = [watchChans EXCEPT ![dirWatches[path]] = "closed"]
                  /\ dirWatches' = Remove(dirWatches, path)
                  /\ Return(c, "nil")
                  /\ UNCHANGED panicked
        ELSE /\ IF Dir(path) \notin DOMAIN dirWatches
                THEN Return(c, "file was not being watched")
                ELSE Return(c, "nil")
             /\ UNCHANGED <<panicked, dirWatches, watchChans>>
  /\ UNCHANGED <<pipeVars, retired, build, isClosed, eventChan, errorChan, delivered,
                 errorsSeen, calls, raw, fsnFlags, readers, forwarders, quit,
                 handles, dispatcher>>


\* Close is called
WinCallClose(c) ==
  /\ CallStarts(c)
  /\ callers' = [callers EXCEPT ![c] = [pc |-> "closeCheck", op |-> "Close",
                                        path |-> <<>>, flags |-> 0, started |-> Len(results)]]
  /\ UNCHANGED <<pipeVars, retired, build, isClosed, eventChan, errorChan, panicked,
                 delivered, errorsSeen, results, raw, fsnFlags, dirWatches,
                 watchChans, mu, readers, forwarders, quit, handles, dispatcher>>

\* Close without the test of w.isClosed
WinCloseCheckSkipped(c) ==
  /\ callers[c].pc = "closeCheck"
  /\ Goto(c, "closeSet")
  /\ UNCHANGED <<pipeVars, retired, build, isClosed, eventChan, errorChan, panicked,
                 delivered, errorsSeen, calls, raw, fsnFlags, dirWatches,
                 watchChans, mu, readers, forwarders, quit, handles, dispatcher>>

\* Close: if w.isClosed { return nil }
WinCloseCheck(c) ==
  /\ callers[c].pc = "closeCheck"
  /\ IF isClosed THEN Return(c, "nil") ELSE Goto(c, "closeSet")
  /\ UNCHANGED <<pipeVars, retired, build, isClosed, eventChan, errorChan, panicked,
                 delivered, errorsSeen, calls, raw, fsnFlags, dirWatches,
                 watchChans, mu, readers, forwarders, quit, handles, dispatcher>>

\* Close: w.isClosed = true
WinCloseSet(c) ==
  /\ callers[c].pc = "closeSet"
  /\ isClosed' = TRUE
  /\ Goto(c, "closeChans")
  /\ UNCHANGED <<pipeVars, retired, build, eventChan, errorChan, panicked, delivered,
                 errorsSeen, calls, raw, fsnFlags, dirWatches, watchChans, mu,
                 readers, forwarders, quit, handles, dispatcher>>

\* Close: the channel of every directory watch is closed
WinCloseChans(c) ==
  /\ callers[c].pc = "closeChans"
  /\ LET chans == {dirWatches[dir] : dir \in DOMAIN dirWatches}
     IN IF \E k \in chans : watchChans[k] = "closed"
        THEN /\ panicked' = "close of closed channel: watch"
             /\ UNCHANGED <<callers, results, watchChans>>
        ELSE /\ watchChans' = [k \in DOMAIN watchChans |->
                                 IF k \in chans THEN "closed" ELSE watchChans[k]]
             /\ Goto(c, "closeEvent")
             /\ UNCHANGED panicked
  /\ UNCHANGED <<pipeVars, retired, build, isClosed, eventChan, errorChan, delivered,
                 errorsSeen, calls, raw, fsnFlags, dirWatches, mu, readers,
                 forwarders, quit, handles, dispatcher>>

\* Close: close(w.Event)
WinCloseEvent(c) ==
  /\ callers[c].pc = "closeEvent"
  /\ IF eventChan = "closed"
     THEN /\ panicked' = "close of closed channel: Event"
          /\ UNCHANGED <<callers, results, eventChan>>
     ELSE /\ eventChan' = "closed"
          /\ Goto(c, "closeError")
          /\ UNCHANGED panicked
  /\ UNCHANGED <<pipeVars, retired, build, isClosed, errorChan, delivered, errorsSeen,
                 calls, raw, fsnFlags, dirWatches, watchChans, mu, readers,
                 forwarders, quit, handles, dispatcher>>

\* Close: close(w.Error); return nil
WinCloseError(c) ==
  /\ callers[c].pc = "closeError"
  /\ IF errorChan = "closed"
     THEN /\ panicked' = "close of closed channel: Error"
          /\ UNCHANGED <<callers, results, errorChan>>
     ELSE /\ errorChan' = "closed"
          /\ Return(c, "nil")
          /\ UNCHANGED panicked
  /\ UNCHANGED <<pipeVars, retired, build, isClosed, eventChan, delivered, errorsSeen,
                 calls, raw, fsnFlags, dirWatches, watchChans, mu, readers,
                 forwarders, quit, handles, dispatcher>>

\* watchDirectory, reader: ReadDirectoryChanges returns a change of a file
\* of the directory; its name is the base of the watched path, a separator
\* and the file name
WinRead(k, action, name) ==
  /\ readers[k].pc = "read" /\ handles[k] = "open" /\ raw < MaxRaw
  /\ raw' = raw + 1
  /\ readers' = [readers EXCEPT ![k].pc = "sendFn",
                   ![k].ev = [mask |-> WinMaskOf(action),
                              Name |-> Base(readers[k].path) \o <<Separator>> \o name,
                              id |-> raw + 1]]
  /\ UNCHANGED <<pipeVars, retired, build, isClosed, eventChan, errorChan, panicked,
                 delivered, errorsSeen, callers, calls, results, fsnFlags,
                 dirWatches, watchChans, mu, forwarders, quit, handles, dispatcher>>

\* reader: ReadDirectoryChanges fails while the handle is open
WinReadFails(k) ==
  /\ readers[k].pc = "read" /\ handles[k] = "open" /\ raw < MaxRaw
  /\ raw' = raw + 1
  /\ readers' = [readers EXCEPT ![k].pc = "readFailed"]
  /\ UNCHANGED <<pipeVars, retired, build, isClosed, eventChan, errorChan, panicked,
                 delivered, errorsSeen, callers, calls, results, fsnFlags,
                 dirWatches, watchChans, mu, forwarders, quit, handles, dispatcher>>

\* reader: the result of the failed ReadDirectoryChanges is not looked at,
\* and no bytes were returned
WinReadFailed(k) ==
  /\ readers[k].pc = "readFailed"
  /\ readers' = [readers EXCEPT ![k].pc = "checkQuit"]
  /\ UNCHANGED <<pipeVars, retired, build, isClosed, eventChan, errorChan, panicked,
                 delivered, errorsSeen, callers, calls, results, raw, fsnFlags,
                 dirWatches, watchChans, mu, forwarders, quit, handles, dispatcher>>

\* reader: ReadDirectoryChanges fails on the closed handle
WinReadClosed(k) ==
  /\ readers[k].pc = "read" /\ handles[k] = "closed"
  /\ readers' = [readers EXCEPT ![k].pc = "checkQuit"]
  /\ UNCHANGED <<pipeVars, retired, build, isClosed, eventChan, errorChan, panicked,
                 delivered, errorsSeen, callers, calls, results, raw, fsnFlags,
                 dirWatches, watchChans, mu, forwarders, quit, handles, dispatcher>>

\* reader: select { case <-quit: return; default: }
WinCheckQuit(k) ==
  /\ readers[k].pc = "checkQuit"
  /\ IF quit[k] = 1
     THEN /\ quit' = [quit EXCEPT ![k] = 0]
          /\ readers' = [readers EXCEPT ![k].pc = "exit"]
     ELSE /\ readers' = [readers EXCEPT ![k].pc = "read"]
          /\ UNCHANGED quit
  /\ UNCHANGED <<pipeVars, retired, build, isClosed, eventChan, errorChan, panicked,
                 delivered, errorsSeen, callers, calls, results, raw, fsnFlags,
                 dirWatches, watchChans, mu, forwarders, handles, dispatcher>>

\* forwarder: case ev := <-fnEvents (the reader is sending)
WinForwardReceive(k) ==
  /\ forwarders[k].pc = "select" /\ readers[k].pc = "sendFn"
  /\ forwarders' = [forwarders EXCEPT ![k] = [pc |-> "setFlags", ev |-> readers[k].ev]]
  /\ readers' = [readers EXCEPT ![k].pc = "checkQuit"]
  /\ UNCHANGED <<pipeVars, retired, build, isClosed, eventChan, errorChan, panicked,
                 delivered, errorsSeen, callers, calls, results, raw, fsnFlags,
                 dirWatches, watchChans, mu, quit, handles, dispatcher>>

\* forwarder: the flags of the event's name are those of its directory, or
\* FSN_ALL when the directory has none
WinForwardSetFlags(k) ==
  /\ forwarders[k].pc = "setFlags"
  /\ LET name == forwarders[k].ev.Name
     IN fsnFlags' = Put(fsnFlags, name,
                        IF Dir(name) \in DOMAIN fsnFlags THEN fsnFlags[Dir(name)]
                        ELSE FSN_ALL)
  /\ forwarders' = [forwarders EXCEPT ![k].pc = "sendInternal"]
  /\ UNCHANGED <<pipeVars, retired, build, isClosed, eventChan, errorChan, panicked,
                 delivered, errorsSeen, callers, calls, results, raw,
                 dirWatches, watchChans, mu, readers, quit, handles, dispatcher>>

\* forwarder: case <-doneChan (closed): quit <- true; CloseHandle; return
WinForwardDone(k) ==
  /\ forwarders[k].pc = "select" /\ watchChans[k] = "closed"
  /\ quit' = [quit EXCEPT ![k] = 1]
  /\ handles' = [handles EXCEPT ![k] = "closed"]
  /\ forwarders' = [forwarders EXCEPT ![k].pc = "exit"]
  /\ UNCHANGED <<pipeVars, retired, build, isClosed, eventChan, errorChan, panicked,
                 delivered, errorsSeen, callers, calls, results, raw, fsnFlags,
                 dirWatches, watchChans, mu, readers, dispatcher>>

\* purgeEvents: ev := <-w.internalEvent (forwarder k is sending)
PurgeReceive(k) ==
  /\ dispatcher.pc = "range" /\ forwarders[k].pc = "sendInternal"
  /\ dispatcher' = [pc |-> "lookup", ev |-> forwarders[k].ev, found |-> FALSE, flags |-> 0]
  /\ forwarders' = [forwarders EXCEPT ![k].pc = "select"]
  /\ UNCHANGED <<pipeVars, retired, build, isClosed, eventChan, errorChan, panicked,
                 delivered, errorsSeen, callers, calls, results, raw, fsnFlags,
                 dirWatches, watchChans, mu, readers, quit, handles>>

\* sendEvent of purgeEvents for the flags of the event's name
purgeSendEvent(flags, ev) ==
  \/ BitAnd(flags, FSN_CREATE) = FSN_CREATE /\ WinIsCreate(ev)
  \/ BitAnd(flags, FSN_MODIFY) = FSN_MODIFY /\ WinIsModify(ev)
  \/ BitAnd(flags, FSN_DELETE) = FSN_DELETE /\ WinIsDelete(ev)
  \/ BitAnd(flags, FSN_RENAME) = FSN_RENAME /\ WinIsRename(ev)
  \/ BitAnd(flags, FSN_CLOSE_WRITE) = FSN_CLOSE_WRITE /\ WinIsCloseWrite(ev)

\* where purgeEvents goes after the send, or when it does not send
PurgeAfterSend(ev) == IF WinIsDelete(ev) THEN "delete" ELSE "range"

\* purgeEvents: fsnFlags := w.fsnFlags[ev.Name] with the lock, then sendEvent
PurgeLookup ==
  /\ dispatcher.pc = "lookup"
  /\ LET name == dispatcher.ev.Name
         found == name \in DOMAIN fsnFlags
         flags == IF found THEN fsnFlags[name] ELSE 0
     IN dispatcher' = [dispatcher EXCEPT
                         !.found = found, !.flags = flags,
                         !.pc = IF purgeSendEvent(flags, dispatcher.ev) THEN "send"
                                ELSE PurgeAfterSend(dispatcher.ev)]
  /\ UNCHANGED <<pipeVars, retired, build, isClosed, eventChan, errorChan, panicked,
                 delivered, errorsSeen, callers, calls, results, raw, fsnFlags,
                 dirWatches, watchChans, mu, readers, forwarders, quit, handles>>

\* purgeEvents that hands the event to the consumer ahead of the one it
\* delivered last
PurgeSendAhead ==
  /\ dispatcher.pc = "send" /\ eventChan = "open"
  /\ delivered' = <<[ev |-> dispatcher.ev, found |-> dispatcher.found,
                     entry |-> dispatcher.flags]>> \o delivered
  /\ dispatcher' = [dispatcher EXCEPT !.pc = PurgeAfterSend(dispatcher.ev)]
  /\ UNCHANGED <<pipeVars, retired, build, isClosed, eventChan, errorChan, panicked,
                 errorsSeen, callers, calls, results, raw, fsnFlags, dirWatches,
                 watchChans, mu, readers, forwarders, quit, handles>>

\* purgeEvents: w.Event <- ev, received by the consumer
PurgeSend ==
  /\ dispatcher.pc = "send" /\ eventChan = "open"
  /\ delivered' = Append(delivered, [ev |-> dispatcher.ev, found |-> dispatcher.found,
                                     entry |-> dispatcher.flags])
  /\ dispatcher' = [dispatcher EXCEPT !.pc = PurgeAfterSend(dispatcher.ev)]
  /\ UNCHANGED <<pipeVars, retired, build, isClosed, eventChan, errorChan, panicked,
                 errorsSeen, callers, calls, results, raw, fsnFlags, dirWatches,
                 watchChans, mu, readers, forwarders, quit, handles>>

\* purgeEvents: w.Event <- ev when w.Event is closed
PurgeSendClosed ==
  /\ dispatcher.pc = "send" /\ eventChan = "closed"
  /\ panicked' = "send on closed channel: Event"
  /\ UNCHANGED <<pipeVars, retired, build, isClosed, eventChan, errorChan, delivered,
                 errorsSeen, callers, calls, results, raw, fsnFlags, dirWatches,
                 watchChans, mu, readers, forwarders, quit, handles, dispatcher>>

\* purgeEvents: delete(w.fsnFlags, ev.Name) with the lock
PurgeDelete ==
  /\ dispatcher.pc = "delete"
  /\ fsnFlags' = Remove(fsnFlags, dispatcher.ev.Name)
  /\ retired' = Put(retired, dispatcher.ev.Name, raw)
  /\ dispatcher' = [dispatcher EXCEPT !.pc = "range"]
  /\ UNCHANGED <<pipeVars, build, isClosed, eventChan, errorChan, panicked,
                 delivered, errorsSeen, callers, calls, results, raw,
                 dirWatches, watchChans, mu, readers, forwarders, quit, handles>>

WatchIds == DOMAIN watchChans

\* the program is the Windows build and has not panicked
WinRunning == build = "windows" /\ panicked = "" /\ UNCHANGED <<bsdVars, fwdVars>>

\* caller 1 makes every call; caller 2 only calls Close, concurrently; no
\* read of an open handle fails
NextWindows ==
  \/ WinRunning /\ \E path \in WinPaths, flags \in WinFlags : WinCallWatchFlags(1, path, flags)
  \/ WinRunning /\ \E c \in Callers : WinWatchCheck(c)
  \/ WinRunning /\ \E c \in Callers : WinWatchLock(c)
  \/ WinRunning /\ \E c \in Callers : WinWatchBody(c)
  \/ WinRunning /\ \E path \in WinRemovePaths : WinCallRemoveWatch(1, path)
  \/ WinRunning /\ \E c \in Callers : WinRemoveWatch(c)
  \/ WinRunning /\ \E c \in Callers : WinCallClose(c)
  \/ WinRunning /\ \E c \in Callers : WinCloseCheck(c)
  \/ WinRunning /\ \E c \in Callers : WinCloseSet(c)
  \/ WinRunning /\ \E c \in Callers : WinCloseChans(c)
  \/ WinRunning /\ \E c \in Callers : WinCloseEvent(c)
  \/ WinRunning /\ \E c \in Callers : WinCloseError(c)
  \/ WinRunning /\ \E k \in WatchIds, action \in WinActions, name \in WinNames : WinRead(k, action, name)
  \/ WinRunning /\ \E k \in WatchIds : WinReadClosed(k)
  \/ WinRunning /\ \E k \in WatchIds : WinCheckQuit(k)
  \/ WinRunning /\ \E k \in WatchIds : WinForwardReceive(k)
  \/ WinRunning /\ \E k \in WatchIds : WinForwardSetFlags(k)
  \/ WinRunning /\ \E k \in WatchIds : WinForwardDone(k)
  \/ WinRunning /\ \E k \in WatchIds : PurgeReceive(k)
  \/ WinRunning /\ PurgeLookup
  \/ WinRunning /\ PurgeSend
  \/ WinRunning /\ PurgeSendClosed
  \/ WinRunning /\ PurgeDelete

SpecWindows == InitWindows /\ [][NextWindows]_vars


(***************************************************************************)
(* The build with the pipelines: WatchPath, RemoveWatch and the dispatcher *)
(* forwardEvents.  The backend of this build (watch, removeWatch, its      *)
(* reader, Close) follows the specification.                               *)
(***************************************************************************)
FwdPaths == {<<"g">>, <<"c">>}

FwdOptions ==
  {[Verbose |-> FALSE, Hidden |-> TRUE, Triggers |-> t, Pattern |-> <<>>,
    Throttle |-> FALSE, Recursive |-> FALSE] : t \in {allTriggers, Modify}}

\* the files and directories there can be, in the order filepath.Walk visits
\* them: a directory before its entries, the entries in lexical order
FwdRoot == <<"g">>
FwdHiddenDir == <<"g", "/", ".", "h">>
FwdInHidden == <<"g", "/", ".", "h", "/", "s">>
FwdSubDir == <<"g", "/", "s">>
FwdSubFile == <<"g", "/", "s", "/", "f">>
WalkOrder == <<<<"c">>, FwdRoot, FwdHiddenDir, FwdInHidden, FwdSubDir, FwdSubFile>>
TreePaths == {WalkOrder[i] : i \in DOMAIN WalkOrder}

\* info.IsDir()
IsDir(path) == path \in {FwdRoot, FwdHiddenDir, FwdInHidden, FwdSubDir}

\* the file trees: the file c, and below g what lies in a directory that
\* exists
FwdTrees ==
  {tree \in SUBSET TreePaths :
     /\ <<"c">> \in tree
     /\ \A path \in tree : Dir(path) = <<".">> \/ Dir(path) \in tree}

\* path is root or lies below it
Under(path, root) == path = root \/ HasPrefix(path, root \o <<Separator>>)

\* filepath.Walk(path, ...) with the function of subdirectories, from entry i
\* of the walk order on: a directory is appended, a hidden directory is
\* skipped with all it holds (filepath.SkipDir) unless includeHidden
RECURSIVE Walk(_, _, _, _)
Walk(tree, root, includeHidden, i) ==
  IF i > Len(WalkOrder) THEN <<>>
  ELSE LET newPath == WalkOrder[i]
       IN IF newPath \notin tree \/ ~Under(newPath, root) \/ ~IsDir(newPath)
          THEN Walk(tree, root, includeHidden, i + 1)
          ELSE IF ~includeHidden /\ isHidden(Base(newPath))
          THEN Walk({p \in tree : ~Under(p, newPath)}, root, includeHidden, i + 1)
          ELSE <<newPath>> \o Walk(tree, root, includeHidden, i + 1)

\* subdirectories that leaves the hidden directories out but walks into them
subdirectoriesFiltered(tree, path, includeHidden) ==
  SelectSeq(WalkOrder, LAMBDA p : /\ p \in tree /\ Under(p, path) /\ IsDir(p)
                                  /\ (includeHidden \/ ~isHidden(Base(p))))

\* subdirectories lists the directories below the path, including the path
subdirectories(tree, path, includeHidden) == Walk(tree, path, includeHidden, 1)

\* the raw events of the backend: one predicate each
FwdKinds == {"create", "modify", "delete"}

FwdEvent(kind, path, id) ==
  [create |-> kind = "create", delete |-> kind = "delete",
   modify |-> kind = "modify", rename |-> FALSE, path |-> path, id |-> id]

NoFwdEvent == FwdEvent("", <<>>, 0)

\* the other variables of the watcher, which this build does not have
FwdUnused ==
  <<pipeVars, build, errorsSeen, fsnFlags, dirWatches, watchChans, mu,
    readers, forwarders, quit, handles, bsdVars>>

\* NewWatcher, and the files there are
InitFwd(trees) ==
  /\ options = NoOptions /\ pipe = zeroPipeline /\ clock = 0 /\ trace = <<>>
  /\ build = "pipeline"
  /\ isClosed = FALSE
  /\ eventChan = "open"
  /\ errorChan = "open"
  /\ panicked = ""
  /\ delivered = <<>>
  /\ errorsSeen = 0
  /\ callers = [c \in Callers |-> Idle]
  /\ calls = 0
  /\ results = <<>>
  /\ raw = 0
  /\ retired = NoEntries
  /\ fsnFlags = NoEntries
  /\ dirWatches = NoEntries
  /\ watchChans = <<>>
  /\ mu = 0
  /\ readers = <<>>
  /\ forwarders = <<>>
  /\ quit = <<>>
  /\ handles = <<>>
  /\ dispatcher = [pc |-> "range", ev |-> NoFwdEvent, found |-> FALSE,
                   pipeline |-> zeroPipeline, forward |-> FALSE]
  /\ NoBsd
  /\ pipelines = NoEntries
  /\ internalEvent = "open"
  /\ \E tree \in trees :
       backend = [pc |-> "read", ev |-> NoFwdEvent, watched |-> {}, stop |-> FALSE,
                  files |-> tree]

InitForward == InitFwd({FwdPaths})

\* a call that runs in one step returns
Returned(c, op, path, result) ==
  /\ CallStarts(c)
  /\ results' = Append(results, [caller |-> c, op |-> op, path |-> path,
                                 result |-> result,
                                 started |-> Len(results)])
  /\ UNCHANGED callers

\* watch of the backend: the native watch is registered and the pipeline
\* built from the options is stored for the path, or the registration fails
watch(c, path, opt) ==
  \E registered \in BOOLEAN :
    IF isClosed \/ ~registered
    THEN /\ Returned(c, "WatchPath", path, "error")
         /\ UNCHANGED <<pipelines, backend, retired>>
    ELSE /\ pipelines' = Put(pipelines, path, newPipeline(opt))
         /\ backend' = [backend EXCEPT !.watched = @ \cup {path}]
         /\ retired' = Remove(retired, path)
         /\ Returned(c, "WatchPath", path, "nil")

\* watchRecursively: w.watch(folder, pipeline) has registered the folders of
\* added, and the call returns
watchFolders(c, path, opt, added, result) ==
  /\ pipelines' = [p \in DOMAIN pipelines \cup added |->
                     IF p \in added THEN newPipeline(opt) ELSE pipelines[p]]
  /\ backend' = [backend EXCEPT !.watched = @ \cup added]
  /\ retired' = [p \in DOMAIN retired \ added |-> retired[p]]
  /\ Returned(c, "WatchPath", path, result)

\* watchRecursively that returns nil when there is no folder
watchRecursivelyNoFolders(c, path, opt) ==
  LET folders == subdirectories(backend.files, path, newPipeline(opt).hidden)
  IN \E n \in 0..Len(folders) :
       /\ isClosed => n = 0
       /\ watchFolders(c, path, opt, {folders[i] : i \in 1..n},
                       IF n = Len(folders) THEN "nil" ELSE "error")

\* watchRecursively that goes on with the next folder after a failure
watchRecursivelyGoesOn(c, path, opt) ==
  LET folders == subdirectories(backend.files, path, newPipeline(opt).hidden)
  IN IF Len(folders) = 0
     THEN watchFolders(c, path, opt, {}, "No folders to watch.")
     ELSE \E n \in 0..Len(folders) :
            /\ isClosed => n = 0
            /\ watchFolders(c, path, opt,
                            {folders[i] : i \in 1..Len(folders)} \ {folders[i] : i \in {n + 1}
                                                                         \cap 1..Len(folders)},
                            IF n = Len(folders) THEN "nil" ELSE "error")

\* watchRecursively: the folders of the walk are watched one after the
\* other with the pipeline of the options; the first watch that fails ends
\* the call with its error, the folders before it stay watched; n is the
\* number of folders registered
watchRecursively(c, path, opt) ==
  LET folders == subdirectories(backend.files, path, newPipeline(opt).hidden)
  IN IF Len(folders) = 0
     THEN watchFolders(c, path, opt, {}, "No folders to watch.")
     ELSE \E n \in 0..Len(folders) :
            /\ isClosed => n = 0
            /\ watchFolders(c, path, opt, {folders[i] : i \in 1..n},
                            IF n = Len(folders) THEN "nil" ELSE "error")

\* WatchPath
WatchPath(c, path, opt) ==
  /\ IF opt.Recursive THEN watchRecursively(c, path, opt) ELSE watch(c, path, opt)
  /\ UNCHANGED <<FwdUnused, isClosed, eventChan, errorChan, panicked, delivered,
                 raw, dispatcher, internalEvent>>

\* removeWatch of the backend: the native watch is released
removeWatch(c, path) ==
  /\ backend' = [backend EXCEPT !.watched = @ \ {path}]
  /\ Returned(c, "RemoveWatch", path,
              IF path \in backend.watched THEN "nil" ELSE "error")

\* RemoveWatch: the pipeline of the path is deleted, then removeWatch runs
FwdRemoveWatch(c, path) ==
  /\ pipelines' = Remove(pipelines, path)
  /\ removeWatch(c, path)
  /\ UNCHANGED <<FwdUnused, isClosed, eventChan, errorChan, panicked, delivered,
                 raw, retired, dispatcher, internalEvent>>

\* Close of the backend: a second Close does nothing; the first tells the
\* reader to stop
FwdClose(c) ==
  /\ Returned(c, "Close", <<>>, "nil")
  /\ isClosed' = TRUE
  /\ backend' = IF isClosed THEN backend ELSE [backend EXCEPT !.stop = TRUE]
  /\ UNCHANGED <<FwdUnused, eventChan, errorChan, panicked, delivered, raw,
                 retired, dispatcher, pipelines, internalEvent>>

\* the file tree after a file or an empty directory was created or deleted
\* or a file was modified
FwdChanged(tree, kind, path) ==
  CASE kind = "create" -> tree \cup {path}
    [] kind = "delete" -> tree \ {path}
    [] OTHER -> tree

\* the change is possible in the tree
FwdCanChange(tree, kind, path) ==
  CASE kind = "create" -> path \notin tree /\ (Dir(path) = <<".">> \/ Dir(path) \in tree)
    [] kind = "delete" -> path \in tree /\ ~(\E p \in tree : Dir(p) = path)
    [] OTHER -> path \in tree

\* the file tree changes at a watched path or at an entry of a watched
\* directory, and the reader of the backend reads the notification; an entry
\* of a watched directory gets the pipeline of the directory (as the flags
\* in the Windows build)
BackendRead(kind, path) ==
  /\ backend.pc = "read" /\ ~backend.stop /\ raw < MaxRaw
  /\ path \in backend.watched \/ Dir(path) \in backend.watched
  /\ FwdCanChange(backend.files, kind, path)
  /\ raw' = raw + 1
  /\ backend' = [backend EXCEPT !.pc = "send", !.ev = FwdEvent(kind, path, raw + 1),
                                !.files = FwdChanged(@, kind, path)]
  /\ pipelines' = IF path \notin backend.watched /\ Dir(path) \in DOMAIN pipelines
                  THEN Put(pipelines, path, pipelines[Dir(path)])
                  ELSE pipelines
  /\ UNCHANGED <<FwdUnused, isClosed, eventChan, errorChan, panicked, delivered,
                 callers, calls, results, retired, dispatcher, internalEvent>>

\* the reader of the backend stops: it closes the internal queue and Error
BackendStop ==
  /\ backend.pc = "read" /\ backend.stop
  /\ backend' = [backend EXCEPT !.pc = "exit"]
  /\ internalEvent' = "closed"
  /\ errorChan' = "closed"
  /\ UNCHANGED <<FwdUnused, isClosed, eventChan, panicked, delivered, callers,
                 calls, results, raw, retired, dispatcher, pipelines>>

\* forwardEvents: ev := <-w.internalEvent (the reader is sending)
ForwardReceive ==
  /\ dispatcher.pc = "range" /\ backend.pc = "send"
  /\ dispatcher' = [dispatcher EXCEPT !.pc = "lookup", !.ev = backend.ev]
  /\ backend' = [backend EXCEPT !.pc = "read"]
  /\ UNCHANGED <<FwdUnused, isClosed, eventChan, errorChan, panicked, delivered,
                 callers, calls, results, raw, retired, pipelines, internalEvent>>

\* where forwardEvents goes after the send, or when it does not send
ForwardAfterSend(ev) == IF IsDelete(ev) THEN "delete" ELSE "range"

\* pipeline := w.pipelines[ev.Path()]: the pipeline of the path, or the zero
\* pipeline when the path has none
PipelineOf(table, path) == IF path \in DOMAIN table THEN table[path] ELSE zeroPipeline

\* forwardEvents: the pipeline of the path is looked up with the lock and
\* then processes the event
ForwardLookup ==
  /\ dispatcher.pc = "lookup"
  /\ LET path == Path(dispatcher.ev)
         found == path \in DOMAIN pipelines
         pipeline == PipelineOf(pipelines, path)
         r == processEvent(pipeline, dispatcher.ev, clock)
     IN /\ dispatcher' = [dispatcher EXCEPT
                            !.found = found, !.pipeline = pipeline,
                            !.forward = r.forward,
                            !.pc = IF r.forward THEN "send"
                                   ELSE ForwardAfterSend(dispatcher.ev)]
        /\ pipelines' = IF found THEN [pipelines EXCEPT ![path].lastEventAt = r.times]
                        ELSE pipelines
  /\ UNCHANGED <<FwdUnused, isClosed, eventChan, errorChan, panicked, delivered,
                 callers, calls, results, raw, retired, internalEvent, backend>>

\* forwardEvents: w.Event <- ev, received by the consumer
ForwardSend ==
  /\ dispatcher.pc = "send" /\ eventChan = "open"
  /\ delivered' = Append(delivered, [ev |-> dispatcher.ev, found |-> dispatcher.found,
                                     entry |-> dispatcher.pipeline])
  /\ dispatcher' = [dispatcher EXCEPT !.pc = ForwardAfterSend(dispatcher.ev)]
  /\ UNCHANGED <<FwdUnused, isClosed, eventChan, errorChan, panicked, callers,
                 calls, results, raw, retired, pipelines, internalEvent, backend>>

\* the entry is deleted only when the event was forwarded
ForwardDeleteWhenForwarded ==
  /\ dispatcher.pc = "delete"
  /\ pipelines' = IF dispatcher.forward THEN Remove(pipelines, Path(dispatcher.ev))
                  ELSE pipelines
  /\ retired' = Put(retired, Path(dispatcher.ev), raw)
  /\ dispatcher' = [dispatcher EXCEPT !.pc = "range"]
  /\ UNCHANGED <<FwdUnused, isClosed, eventChan, errorChan, panicked, delivered,
                 callers, calls, results, raw, internalEvent, backend>>

\* forwardEvents: delete(w.pipelines, ev.Path()) with the lock
ForwardDelete ==
  /\ dispatcher.pc = "delete"
  /\ pipelines' = Remove(pipelines, Path(dispatcher.ev))
  /\ retired' = Put(retired, Path(dispatcher.ev), raw)
  /\ dispatcher' = [dispatcher EXCEPT !.pc = "range"]
  /\ UNCHANGED <<FwdUnused, isClosed, eventChan, errorChan, panicked, delivered,
                 callers, calls, results, raw, internalEvent, backend>>

\* forwardEvents: the internal queue is closed: close(w.Event)
ForwardExit ==
  /\ dispatcher.pc = "range" /\ internalEvent = "closed"
  /\ IF eventChan = "closed"
     THEN panicked' = "close of closed channel: Event" /\ UNCHANGED <<eventChan, dispatcher>>
     ELSE /\ eventChan' = "closed"
          /\ dispatcher' = [dispatcher EXCEPT !.pc = "exit"]
          /\ UNCHANGED panicked
  /\ UNCHANGED <<FwdUnused, isClosed, errorChan, delivered, callers, calls,
                 results, raw, retired, pipelines, internalEvent, backend>>

\* the program is the build with the pipelines and has not panicked
FwdRunning == build = "pipeline" /\ panicked = ""


NextForward ==
  \/ FwdRunning /\ \E path \in FwdPaths, opt \in FwdOptions : WatchPath(1, path, opt)
  \/ FwdRunning /\ \E path \in FwdPaths : FwdRemoveWatch(1, path)
  \/ FwdRunning /\ FwdClose(1)
  \/ FwdRunning /\ \E kind \in FwdKinds, path \in FwdPaths : BackendRead(kind, path)
  \/ FwdRunning /\ BackendStop
  \/ FwdRunning /\ ForwardReceive
  \/ FwdRunning /\ ForwardLookup
  \/ FwdRunning /\ ForwardSend
  \/ FwdRunning /\ ForwardDelete
  \/ FwdRunning /\ ForwardExit

SpecForward == InitForward /\ [][NextForward]_vars

(***************************************************************************)
(* The same build with a user who watches directory trees.                 *)
(***************************************************************************)
RecursiveOptions ==
  {[Verbose |-> FALSE, Hidden |-> h, Triggers |-> allTriggers, Pattern |-> <<>>,
    Throttle |-> FALSE, Recursive |-> TRUE] : h \in BOOLEAN}

RecursiveRoots == {FwdRoot, FwdHiddenDir, <<"c">>}

\* what is created and deleted below g
RecursiveKinds == {"create", "delete"}

InitRecursive == InitFwd(FwdTrees)

NextRecursive ==
  \/ FwdRunning /\ \E path \in RecursiveRoots, opt \in RecursiveOptions :
                      WatchPath(1, path, opt)
  \/ FwdRunning /\ \E kind \in RecursiveKinds, path \in TreePaths \ {<<"c">>} :
                      BackendRead(kind, path)
  \/ FwdRunning /\ ForwardReceive
  \/ FwdRunning /\ ForwardLookup
  \/ FwdRunning /\ ForwardSend
  \/ FwdRunning /\ ForwardDelete

SpecRecursive == InitRecursive /\ [][NextRecursive]_vars


(***************************************************************************)
(* The BSD build (kqueue): Watch, RemoveWatch, Close and readEvents, which *)
(* sends on Event itself.                                                  *)
(***************************************************************************)
NOTE_DELETE == 1
NOTE_WRITE == 2
NOTE_EXTEND == 4
NOTE_ATTRIB == 8
NOTE_LINK == 16
NOTE_RENAME == 32
NOTE_REVOKE == 64
NOTE_ALLEVENTS == 43

\* a | b on non-negative integers
BitOr(a, b) == a + b - BitAnd(a, b)

\* FileEvent.IsModify of the BSD build
BsdIsModify(e) ==
  BitAnd(e.mask, NOTE_WRITE) = NOTE_WRITE \/ BitAnd(e.mask, NOTE_ATTRIB) = NOTE_ATTRIB
\* FileEvent.IsCreate, IsDelete and IsRename of the BSD build
BsdIsCreate(e) == e.create
BsdIsDelete(e) == BitAnd(e.mask, NOTE_DELETE) = NOTE_DELETE
BsdIsRename(e) == BitAnd(e.mask, NOTE_RENAME) = NOTE_RENAME

\* the file system: a directory, which exists, and the entries it can have:
\* a regular file and a symbolic link whose target does not exist
BsdDir == <<"d">>
BsdFile == <<"d", "/", "f">>
BsdLink == <<"d", "/", "l">>
BsdListing == <<BsdFile, BsdLink>>
BsdFiles == {BsdFile}
BsdWatchPaths == {BsdDir, BsdFile}

\* fi.Mode()&os.ModeSymlink == os.ModeSymlink
IsSymlink(path) == path = BsdLink

\* fi.IsDir()
BsdIsDirectory(path) == path = BsdDir

\* ioutil.ReadDir(dirPath): the files of the directory, sorted by name
ReadDir(fsfiles) == SelectSeq(BsdListing, LAMBDA path : path \in fsfiles)

\* syscall.Open gives the lowest descriptor that is not open (the kqueue
\* has descriptor 3)
NewFd(open) ==
  CHOOSE n \in 4..(4 + Cardinality(DOMAIN open)) :
    n \notin DOMAIN open /\ \A m \in 4..(n - 1) : m \in DOMAIN open

\* the maps of the watcher, the descriptors, kbuf[0].Fflags and the error
BsdState ==
  [watches |-> watches, paths |-> paths, finfo |-> finfo, fds |-> fds,
   Fflags |-> 0, closed |-> isClosed, err |-> ""]

\* syscall.Kevent(w.kq, w.kbuf[:], nil, nil) with EV_ADD: the descriptor is
\* registered with the fflags of kbuf[0]; a descriptor that is not open fails
KeventAdd(st, fd) ==
  IF fd \in DOMAIN st.fds
  THEN [st EXCEPT !.fds = [@ EXCEPT ![fd] = [@ EXCEPT !.fflags = st.Fflags]]]
  ELSE [st EXCEPT !.err = "kevent"]

RECURSIVE addWatch(_, _, _, _, _)
RECURSIVE watchDirectoryFiles(_, _, _, _)

\* watchDirectoryFiles: every file of the listing is watched, up to the
\* first error
watchDirectoryFiles(st, listing, i, fsfiles) ==
  IF i > Len(listing) THEN st
  ELSE LET added == addWatch(st, listing[i],
                             BitOr(NOTE_DELETE, BitOr(NOTE_WRITE, NOTE_RENAME)),
                             TRUE, fsfiles)
       IN IF added.err # "" THEN added
          ELSE watchDirectoryFiles(added, listing, i + 1, fsfiles)

\* addWatch: opened says whether syscall.Open succeeds; for a symbolic link
\* filepath.EvalSymlinks fails and addWatch returns nil
addWatch(st, path, flags, opened, fsfiles) ==
  IF st.closed THEN [st EXCEPT !.err = "kevent instance already closed"]
  ELSE
    LET entry == [st EXCEPT !.Fflags = flags]
    IN IF path \in DOMAIN st.watches THEN KeventAdd(entry, st.watches[path])
       ELSE IF ~(path = BsdDir \/ path \in fsfiles) THEN [entry EXCEPT !.err = "lstat"]
       ELSE IF IsSymlink(path) THEN entry
       ELSE IF ~opened THEN [entry EXCEPT !.err = "open"]
       ELSE
         LET fd == NewFd(st.fds)
             stored == [entry EXCEPT
                          !.watches = Put(@, path, fd),
                          !.paths = Put(@, fd, path),
                          !.finfo = Put(@, fd, BsdIsDirectory(path)),
                          !.fds = Put(@, fd, [node |-> path, fflags |-> 0])]
         IN IF BsdIsDirectory(path)
            THEN LET walked == watchDirectoryFiles(stored, ReadDir(fsfiles), 1, fsfiles)
                 IN IF walked.err # "" THEN walked ELSE KeventAdd(walked, fd)
            ELSE KeventAdd(stored, fd)

\* the state of the watcher becomes st
BsdStore(st) ==
  /\ watches' = st.watches
  /\ paths' = st.paths
  /\ finfo' = st.finfo
  /\ fds' = st.fds

\* the other variables of the watcher, which this build does not have
BsdUnused ==
  <<pipeVars, build, retired, fsnFlags, dirWatches, watchChans, mu, readers,
    forwarders, quit, handles, dispatcher, fwdVars>>

\* NewWatcher: the kqueue is open and readEvents runs
InitBsd ==
  /\ options = NoOptions /\ pipe = zeroPipeline /\ clock = 0 /\ trace = <<>>
  /\ build = "bsd"
  /\ isClosed = FALSE
  /\ eventChan = "open"
  /\ errorChan = "open"
  /\ panicked = ""
  /\ delivered = <<>>
  /\ errorsSeen = 0
  /\ callers = [c \in Callers |-> Idle]
  /\ calls = 0
  /\ results = <<>>
  /\ raw = 0
  /\ retired = NoEntries
  /\ fsnFlags = NoEntries
  /\ dirWatches = NoEntries
  /\ watchChans = <<>>
  /\ mu = 0
  /\ readers = <<>>
  /\ forwarders = <<>>
  /\ quit = <<>>
  /\ handles = <<>>
  /\ dispatcher = [pc |-> "none"]
  /\ NoForward
  /\ kq = "open"
  /\ watches = NoEntries
  /\ paths = NoEntries
  /\ finfo = NoEntries
  /\ done = 0
  /\ files \in SUBSET BsdFiles
  /\ fds = NoEntries
  /\ kpending = NoEntries
  /\ kreader = [pc |-> "loop", events |-> <<>>, sending |-> <<>>, dir |-> <<>>]

\* Watch that reports the symbolic link it cannot resolve
BsdWatchLinkError(c, path, opened) ==
  LET st == addWatch(BsdState, path, NOTE_ALLEVENTS, opened, files)
  IN /\ BsdStore(st)
     /\ Returned(c, "Watch", path,
                 IF IsSymlink(path) /\ path \in files THEN "EvalSymlinks"
                 ELSE IF st.err = "" THEN "nil" ELSE st.err)
     /\ UNCHANGED <<BsdUnused, isClosed, eventChan, errorChan, panicked, delivered,
                    errorsSeen, raw, kq, done, files, kpending, kreader>>

\* Watch: addWatch with NOTE_ALLEVENTS
BsdWatch(c, path, opened) ==
  LET st == addWatch(BsdState, path, NOTE_ALLEVENTS, opened, files)
  IN /\ BsdStore(st)
     /\ Returned(c, "Watch", path, IF st.err = "" THEN "nil" ELSE st.err)
     /\ UNCHANGED <<BsdUnused, isClosed, eventChan, errorChan, panicked, delivered,
                    errorsSeen, raw, kq, done, files, kpending, kreader>>

\* the descriptor of the path is closed, which drops its kernel events; the
\* list deleted has the paths whose EV_DELETE succeeds afterwards, and only
\* their entries are deleted
RECURSIVE RemoveWatches(_, _, _)
RemoveWatches(st, todo, deleted) ==
  IF todo = {} THEN st
  ELSE LET path == CHOOSE x \in todo : TRUE
           fd == st.watches[path]
           closed == [st EXCEPT !.fds = Remove(@, fd), !.pending = Remove(@, fd)]
       IN RemoveWatches(IF path \in deleted /\ fd \in DOMAIN st.fds
                        THEN [closed EXCEPT !.watches = Remove(@, path)]
                        ELSE closed,
                        todo \ {path}, deleted)

\* RemoveWatch that returns nil for a path without watch
BsdRemoveWatchUnknown(c, path, deleted) ==
  /\ IF path \notin DOMAIN watches
     THEN /\ Returned(c, "RemoveWatch", path, "nil")
          /\ UNCHANGED <<watches, fds, kpending>>
     ELSE LET st == RemoveWatches([watches |-> watches, fds |-> fds, pending |-> kpending],
                                  {path}, IF deleted THEN {path} ELSE {})
          IN /\ watches' = st.watches
             /\ fds' = st.fds
             /\ kpending' = st.pending
             /\ Returned(c, "RemoveWatch", path,
                         IF path \in DOMAIN st.watches THEN "kevent_rm_watch" ELSE "nil")
  /\ UNCHANGED <<BsdUnused, isClosed, eventChan, errorChan, panicked, delivered,
                 errorsSeen, raw, kq, paths, finfo, done, files, kreader>>

\* RemoveWatch
BsdRemoveWatch(c, path, deleted) ==
  /\ IF path \notin DOMAIN watches
     THEN /\ Returned(c, "RemoveWatch", path, "can't remove non-existent kevent watch")
          /\ UNCHANGED <<watches, fds, kpending>>
     ELSE LET st == RemoveWatches([watches |-> watches, fds |-> fds, pending |-> kpending],
                                  {path}, IF deleted THEN {path} ELSE {})
          IN /\ watches' = st.watches
             /\ fds' = st.fds
             /\ kpending' = st.pending
             /\ Returned(c, "RemoveWatch", path,
                         IF path \in DOMAIN st.watches THEN "kevent_rm_watch" ELSE "nil")
  /\ UNCHANGED <<BsdUnused, isClosed, eventChan, errorChan, panicked, delivered,
                 errorsSeen, raw, kq, paths, finfo, done, files, kreader>>

\* Close is called
BsdCallClose(c) ==
  /\ CallStarts(c)
  /\ callers' = [callers EXCEPT ![c] = [pc |-> "closeCheck", op |-> "Close",
                                        path |-> <<>>, flags |-> 0, started |-> Len(results)]]
  /\ UNCHANGED <<BsdUnused, isClosed, eventChan, errorChan, panicked, delivered,
                 errorsSeen, results, raw, bsdVars>>

\* Close: if w.isClosed { return nil }
BsdCloseCheck(c) ==
  /\ callers[c].pc = "closeCheck"
  /\ IF isClosed THEN Return(c, "nil") ELSE Goto(c, "closeSet")
  /\ UNCHANGED <<BsdUnused, isClosed, eventChan, errorChan, panicked, delivered,
                 errorsSeen, calls, raw, bsdVars>>

\* Close: w.isClosed = true
BsdCloseSet(c) ==
  /\ callers[c].pc = "closeSet"
  /\ isClosed' = TRUE
  /\ Goto(c, "closeDone")
  /\ UNCHANGED <<BsdUnused, eventChan, errorChan, panicked, delivered,
                 errorsSeen, calls, raw, bsdVars>>

\* Close: w.done <- true, which waits while the channel is full
BsdCloseDone(c) ==
  /\ callers[c].pc = "closeDone"
  /\ done = 0
  /\ done' = 1
  /\ Goto(c, "closeRemove")
  /\ UNCHANGED <<BsdUnused, isClosed, eventChan, errorChan, panicked, delivered,
                 errorsSeen, calls, raw, kq, watches, paths, finfo, files, fds,
                 kpending, kreader>>

\* Close: RemoveWatch of every path of w.watches; return nil
BsdCloseRemove(c, deleted) ==
  /\ callers[c].pc = "closeRemove"
  /\ LET st == RemoveWatches([watches |-> watches, fds |-> fds, pending |-> kpending],
                             DOMAIN watches, deleted)
     IN /\ watches' = st.watches
        /\ fds' = st.fds
        /\ kpending' = st.pending
  /\ Return(c, "nil")
  /\ UNCHANGED <<BsdUnused, isClosed, eventChan, errorChan, panicked, delivered,
                 errorsSeen, calls, raw, kq, paths, finfo, done, files, kreader>>

\* the kernel notes a change of a file for the descriptors that are
\* registered for it
Notify(pending, node, note) ==
  LET hit == {fd \in DOMAIN fds : fds[fd].node = node /\ BitAnd(fds[fd].fflags, note) = note}
  IN [fd \in DOMAIN pending \cup hit |->
        IF fd \in hit
        THEN BitOr(IF fd \in DOMAIN pending THEN pending[fd] ELSE 0, note)
        ELSE pending[fd]]

\* a file is created in the directory (max: how many changes are made)
BsdFsCreate(file, max) ==
  /\ raw < max /\ file \notin files
  /\ raw' = raw + 1
  /\ files' = files \cup {file}
  /\ kpending' = Notify(kpending, BsdDir, NOTE_WRITE)
  /\ UNCHANGED <<BsdUnused, isClosed, eventChan, errorChan, panicked, delivered,
                 errorsSeen, callers, calls, results, kq, watches, paths, finfo,
                 done, fds, kreader>>

\* a file of the directory is removed
BsdFsRemove(file, max) ==
  /\ raw < max /\ file \in files
  /\ raw' = raw + 1
  /\ files' = files \ {file}
  /\ kpending' = Notify(Notify(kpending, file, NOTE_DELETE), BsdDir, NOTE_WRITE)
  /\ UNCHANGED <<BsdUnused, isClosed, eventChan, errorChan, panicked, delivered,
                 errorsSeen, callers, calls, results, kq, watches, paths, finfo,
                 done, fds, kreader>>

\* a file of the directory is written
BsdFsWrite(file, max) ==
  /\ raw < max /\ file \in files
  /\ raw' = raw + 1
  /\ kpending' = Notify(kpending, file, NOTE_WRITE)
  /\ UNCHANGED <<BsdUnused, isClosed, eventChan, errorChan, panicked, delivered,
                 errorsSeen, callers, calls, results, kq, watches, paths, finfo,
                 done, files, fds, kreader>>

\* readEvents: select { case done = <-w.done: default: }
BsdPoll ==
  /\ kreader.pc = "loop"
  /\ IF done = 1
     THEN done' = 0 /\ kreader' = [kreader EXCEPT !.pc = "closing"]
     ELSE UNCHANGED done /\ kreader' = [kreader EXCEPT !.pc = "kevent"]
  /\ UNCHANGED <<BsdUnused, isClosed, eventChan, errorChan, panicked, delivered,
                 errorsSeen, callers, calls, results, raw, kq, watches, paths,
                 finfo, files, fds, kpending>>

\* readEvents, done: the kqueue is closed, then Event and Error
BsdClosing ==
  /\ kreader.pc = "closing"
  /\ kq' = "closed"
  /\ IF eventChan = "closed" \/ errorChan = "closed"
     THEN /\ panicked' = "close of closed channel: " \o
                            (IF eventChan = "closed" THEN "Event" ELSE "Error")
          /\ UNCHANGED <<eventChan, errorChan, kreader>>
     ELSE /\ eventChan' = "closed"
          /\ errorChan' = "closed"
          /\ kreader' = [kreader EXCEPT !.pc = "exit"]
          /\ UNCHANGED panicked
  /\ UNCHANGED <<BsdUnused, isClosed, delivered, errorsSeen, callers, calls,
                 results, raw, watches, paths, finfo, done, files, fds, kpending>>

\* the pending kernel events, by descriptor
RECURSIVE PendingEvents(_)
PendingEvents(pending) ==
  IF DOMAIN pending = {} THEN <<>>
  ELSE LET fd == CHOOSE x \in DOMAIN pending : \A y \in DOMAIN pending : x <= y
       IN <<[Ident |-> fd, Fflags |-> pending[fd]]>> \o PendingEvents(Remove(pending, fd))

\* readEvents: syscall.Kevent returns the pending events, or none when the
\* wait time has passed
BsdKevent ==
  /\ kreader.pc = "kevent"
  /\ kreader' = [kreader EXCEPT !.pc = "flush", !.events = PendingEvents(kpending)]
  /\ kpending' = NoEntries
  /\ UNCHANGED <<BsdUnused, isClosed, eventChan, errorChan, panicked, delivered,
                 errorsSeen, callers, calls, results, raw, kq, watches, paths,
                 finfo, done, files, fds>>

\* readEvents: syscall.Kevent fails with an errno other than EINTR
BsdKeventFails ==
  /\ kreader.pc = "kevent" /\ raw < MaxRaw
  /\ raw' = raw + 1
  /\ kreader' = [kreader EXCEPT !.pc = "sendError"]
  /\ UNCHANGED <<BsdUnused, isClosed, eventChan, errorChan, panicked, delivered,
                 errorsSeen, callers, calls, results, kq, watches, paths, finfo,
                 done, files, fds, kpending>>

\* readEvents: w.Error <- os.NewSyscallError("kevent", errno); continue
BsdSendError ==
  /\ kreader.pc = "sendError"
  /\ IF errorChan = "closed"
     THEN panicked' = "send on closed channel: Error" /\ UNCHANGED <<errorsSeen, kreader>>
     ELSE /\ errorsSeen' = errorsSeen + 1
          /\ kreader' = [kreader EXCEPT !.pc = "loop"]
          /\ UNCHANGED panicked
  /\ UNCHANGED <<BsdUnused, isClosed, eventChan, errorChan, delivered, callers,
                 calls, results, raw, kq, watches, paths, finfo, done, files,
                 fds, kpending>>

\* sendDirectoryChangeEvents: a create event for every file of the
\* directory that w.watches does not have
sendDirectoryChangeEvents(fsfiles) ==
  LET new == SelectSeq(ReadDir(fsfiles), LAMBDA path : path \notin DOMAIN watches)
  IN [i \in DOMAIN new |-> [mask |-> 0, Name |-> new[i], create |-> TRUE]]

\* readEvents: the first of the events becomes a FileEvent; a change of a
\* directory becomes the create events of its new files, or an error when
\* ioutil.ReadDir fails (readable is FALSE)
BsdFlush(readable) ==
  /\ kreader.pc = "flush"
  /\ IF kreader.events = <<>>
     THEN kreader' = [kreader EXCEPT !.pc = "loop"] /\ UNCHANGED panicked
     ELSE LET watchEvent == Head(kreader.events)
              fileEvent == [mask |-> watchEvent.Fflags,
                            Name |-> IF watchEvent.Ident \in DOMAIN paths
                                     THEN paths[watchEvent.Ident] ELSE <<>>,
                            create |-> FALSE]
          IN IF watchEvent.Ident \notin DOMAIN finfo
             THEN panicked' = "nil pointer dereference" /\ UNCHANGED kreader
             ELSE /\ UNCHANGED panicked
                  /\ IF finfo[watchEvent.Ident] /\ BsdIsModify(fileEvent)
                     THEN kreader' = [kreader EXCEPT
                                        !.pc = IF readable THEN "send" ELSE "sendDirError",
                                        !.sending = IF readable
                                                    THEN sendDirectoryChangeEvents(files)
                                                    ELSE <<>>,
                                        !.dir = fileEvent.Name]
                     ELSE kreader' = [kreader EXCEPT
                                        !.pc = "send",
                                        !.sending = <<fileEvent>>,
                                        !.dir = <<>>]
  /\ UNCHANGED <<BsdUnused, isClosed, eventChan, errorChan, delivered, errorsSeen,
                 callers, calls, results, raw, kq, watches, paths, finfo, done,
                 files, fds, kpending>>

\* sendDirectoryChangeEvents: w.Error <- err, received by the consumer;
\* the function goes on with no files
BsdSendDirError ==
  /\ kreader.pc = "sendDirError"
  /\ IF errorChan = "closed"
     THEN panicked' = "send on closed channel: Error" /\ UNCHANGED <<errorsSeen, kreader>>
     ELSE /\ errorsSeen' = errorsSeen + 1
          /\ kreader' = [kreader EXCEPT !.pc = "send"]
          /\ UNCHANGED panicked
  /\ UNCHANGED <<BsdUnused, isClosed, eventChan, errorChan, delivered, callers,
                 calls, results, raw, kq, watches, paths, finfo, done, files,
                 fds, kpending>>

\* readEvents: w.Event <- fileEvent, received by the consumer
BsdSend ==
  /\ kreader.pc = "send" /\ kreader.sending # <<>>
  /\ IF eventChan = "closed"
     THEN panicked' = "send on closed channel: Event" /\ UNCHANGED <<delivered, kreader>>
     ELSE /\ delivered' = Append(delivered, [ev |-> Head(kreader.sending)])
          /\ kreader' = [kreader EXCEPT !.sending = Tail(@)]
          /\ UNCHANGED panicked
  /\ UNCHANGED <<BsdUnused, isClosed, eventChan, errorChan, errorsSeen, callers,
                 calls, results, raw, kq, watches, paths, finfo, done, files, fds,
                 kpending>>

\* readEvents: after the create events the files of the directory are
\* watched (errors are dropped, that of ioutil.ReadDir too); then the next
\* event
BsdNextEvent(readable) ==
  /\ kreader.pc = "send" /\ kreader.sending = <<>>
  /\ kreader.dir = <<>> => readable
  /\ IF kreader.dir # <<>> /\ readable
     THEN BsdStore(watchDirectoryFiles(BsdState, ReadDir(files), 1, files))
     ELSE UNCHANGED <<watches, paths, finfo, fds>>
  /\ kreader' = [kreader EXCEPT !.pc = "flush", !.events = Tail(@), !.dir = <<>>]
  /\ UNCHANGED <<BsdUnused, isClosed, eventChan, errorChan, panicked, delivered,
                 errorsSeen, callers, calls, results, raw, kq, done, files, kpending>>

\* the program is the BSD build and has not panicked
BsdRunning == build = "bsd" /\ panicked = ""

\* caller 1 makes every call; caller 2 only calls Close, concurrently; the
\* directory can be read
NextBsd ==
  \/ BsdRunning /\ \E path \in BsdWatchPaths, opened \in BOOLEAN : BsdWatch(1, path, opened)
  \/ BsdRunning /\ \E path \in BsdWatchPaths, deleted \in BOOLEAN : BsdRemoveWatch(1, path, deleted)
  \/ BsdRunning /\ \E c \in Callers : BsdCallClose(c)
  \/ BsdRunning /\ \E c \in Callers : BsdCloseCheck(c)
  \/ BsdRunning /\ \E c \in Callers : BsdCloseSet(c)
  \/ BsdRunning /\ \E c \in Callers : BsdCloseDone(c)
  \/ BsdRunning /\ \E c \in Callers, deleted \in SUBSET BsdWatchPaths : BsdCloseRemove(c, deleted)
  \/ BsdRunning /\ \E file \in BsdFiles : BsdFsCreate(file, MaxChanges)
  \/ BsdRunning /\ \E file \in BsdFiles : BsdFsRemove(file, MaxChanges)
  \/ BsdRunning /\ \E file \in BsdFiles : BsdFsWrite(file, MaxChanges)
  \/ BsdRunning /\ BsdPoll
  \/ BsdRunning /\ BsdClosing
  \/ BsdRunning /\ BsdKevent
  \/ BsdRunning /\ BsdKeventFails
  \/ BsdRunning /\ BsdSendError
  \/ BsdRunning /\ BsdFlush(TRUE)
  \/ BsdRunning /\ BsdSend
  \/ BsdRunning /\ BsdNextEvent(TRUE)

SpecBsd == InitBsd /\ [][NextBsd]_vars


(***************************************************************************)
(* The readers of both builds when reads fail, and the directory with a    *)
(* symbolic link: the user only watches, the watcher is not closed.        *)
(***************************************************************************)
\* the directories watched on Windows: one in the working directory, one
\* below another directory
ReaderWinPaths == {<<"d">>, <<"a", Separator, "d">>}
\* the paths watched on BSD, and the entries that are created
ReaderWatchPaths == {BsdDir, BsdLink}
ReaderFiles == {BsdFile, BsdLink}

InitReaders == InitWindows \/ InitBsd

NextReaders ==
  \/ WinRunning /\ \E path \in ReaderWinPaths, flags \in WinFlags : WinCallWatchFlags(1, path, flags)
  \/ WinRunning /\ WinWatchCheck(1)
  \/ WinRunning /\ WinWatchLock(1)
  \/ WinRunning /\ WinWatchBody(1)
  \/ WinRunning /\ \E k \in WatchIds, action \in WinActions, name \in WinNames : WinRead(k, action, name)
  \/ WinRunning /\ \E k \in WatchIds : WinReadFails(k)
  \/ WinRunning /\ \E k \in WatchIds : WinReadFailed(k)
  \/ WinRunning /\ \E k \in WatchIds : WinCheckQuit(k)
  \/ WinRunning /\ \E k \in WatchIds : WinForwardReceive(k)
  \/ WinRunning /\ \E k \in WatchIds : WinForwardSetFlags(k)
  \/ WinRunning /\ \E k \in WatchIds : PurgeReceive(k)
  \/ WinRunning /\ PurgeLookup
  \/ WinRunning /\ PurgeSend
  \/ WinRunning /\ PurgeDelete
  \/ BsdRunning /\ \E path \in ReaderWatchPaths : BsdWatch(1, path, TRUE)
  \/ BsdRunning /\ \E file \in ReaderFiles : BsdFsCreate(file, MaxRaw)
  \/ BsdRunning /\ BsdFsRemove(BsdFile, MaxRaw)
  \/ BsdRunning /\ BsdFsWrite(BsdFile, MaxRaw)
  \/ BsdRunning /\ BsdPoll
  \/ BsdRunning /\ BsdKevent
  \/ BsdRunning /\ BsdKeventFails
  \/ BsdRunning /\ BsdSendError
  \/ BsdRunning /\ \E readable \in BOOLEAN : BsdFlush(readable)
  \/ BsdRunning /\ BsdSendDirError
  \/ BsdRunning /\ BsdSend
  \/ BsdRunning /\ \E readable \in BOOLEAN : BsdNextEvent(readable)

SpecReaders == InitReaders /\ [][NextReaders]_vars


(***************************************************************************)
(* Claims about the Windows build.                                         *)
(***************************************************************************)
\* the event was read after the Delete event of its path was dispatched,
\* and the user has not watched the path again since
ReadAfterRetired(ev) ==
  ev.Name \in DOMAIN retired /\ ev.id > retired[ev.Name]

\* C7: once the Delete event of a watched path P has been dispatched, and
\* as long as P is not watched again, an event of P that is read later is
\* not delivered on Event
NoEventAfterDelete ==
  \A i \in DOMAIN delivered : ~ReadAfterRetired(delivered[i].ev)

\* C9: no goroutine sends on Event or on Error after the channel has been
\* closed, however Close interleaves with the readers and the dispatcher
NoSendOnClosedQueue ==
  panicked \notin {"send on closed channel: Event", "send on closed channel: Error"}

\* a Close call has returned and no call is running
ShutdownCompleted ==
  /\ \E i \in DOMAIN results : results[i].op = "Close"
  /\ \A c \in DOMAIN callers : callers[c].pc = "idle"

\* C10: Event and Error are each closed exactly once, also when two Close
\* calls race: neither is closed a second time, and both are closed when
\* the shutdown has completed
QueuesClosedExactlyOnce ==
  /\ panicked \notin {"close of closed channel: Event", "close of closed channel: Error"}
  /\ ShutdownCompleted => eventChan = "closed" /\ errorChan = "closed"


(***************************************************************************)
(* The dispatchers of both builds, and the backends that have Close.       *)
(***************************************************************************)
SpecDispatch == (InitForward \/ InitWindows) /\ [][NextForward \/ NextWindows]_vars

SpecBackends == (InitWindows \/ InitBsd) /\ [][NextWindows \/ NextBsd]_vars

\* the watch table of the dispatcher, the event it handles, its verdict
WatchTable == IF build = "windows" THEN fsnFlags ELSE pipelines
DispatchedPath == IF build = "windows" THEN dispatcher.ev.Name ELSE Path(dispatcher.ev)
DispatchedIsDelete ==
  IF build = "windows" THEN WinIsDelete(dispatcher.ev) ELSE IsDelete(dispatcher.ev)
DispatchedIsAccepted ==
  IF build = "windows" THEN purgeSendEvent(dispatcher.flags, dispatcher.ev)
  ELSE dispatcher.forward

\* the filter of a table entry accepts the event
Accepts(entry, ev) ==
  IF build = "windows" THEN purgeSendEvent(entry, ev)
  ELSE entry.triggers = 0 \/ PredicatesOf(ev) \cap TriggersOf(entry.triggers) # {}

\* C1: every event delivered on Event was taken from the internal queue
\* and accepted by the pipeline (the filter flags) that the watch table had
\* for its path when the dispatcher looked it up
DeliveredOnlyIfAccepted ==
  \A i \in DOMAIN delivered :
    /\ delivered[i].ev.id \in 1..raw
    /\ delivered[i].found
    /\ Accepts(delivered[i].entry, delivered[i].ev)

\* the dispatcher is done with the event it was handling
DispatchEnds == dispatcher.pc \in {"lookup", "send", "delete"} /\ dispatcher'.pc = "range"

\* C6: when the dispatcher is done with a Delete event of path P, the watch
\* table has no entry for P, whether the event was forwarded or not; the
\* entry is removed in the last step, after the event was processed and, if
\* accepted, delivered; the entries of the other paths are unchanged
DeleteRetiresEntry ==
  [][(DispatchEnds /\ DispatchedIsDelete) =>
       /\ dispatcher.pc = "delete"
       /\ DispatchedIsAccepted =>
            /\ delivered # <<>>
            /\ delivered[Len(delivered)].ev = dispatcher.ev
       /\ DispatchedPath \notin DOMAIN WatchTable'
       /\ DOMAIN WatchTable' = DOMAIN WatchTable \ {DispatchedPath}
       /\ \A path \in DOMAIN WatchTable' : WatchTable'[path] = WatchTable[path]]_vars

\* a Delete event of a path with a pipeline that rejects it was handled:
\* nothing was delivered and the path has no entry
DeleteRetiresEntryWitness ==
  /\ build = "pipeline"
  /\ dispatcher.pc = "range" /\ IsDelete(dispatcher.ev)
  /\ dispatcher.found /\ ~dispatcher.forward
  /\ delivered = <<>>
  /\ Path(dispatcher.ev) \notin DOMAIN pipelines

\* a Close call of caller c runs that started after a Close call returned
SecondClose(c) ==
  /\ callers[c].op = "Close"
  /\ \E i \in 1..callers[c].started : results[i].op = "Close"

\* C8: a Close call made after a Close call has returned returns nil and
\* does nothing else: no panic, no queue and no stop channel is closed, no
\* reader is signalled
SecondCloseHasNoEffect ==
  [][\A c \in Callers :
       (SecondClose(c) /\ callers'[c] # callers[c]) =>
         /\ callers'[c].pc = "idle"
         /\ Len(results') = Len(results) + 1
         /\ results'[Len(results')].caller = c
         /\ results'[Len(results')].result = "nil"
         /\ UNCHANGED <<isClosed, eventChan, errorChan, panicked, dirWatches,
                        watchChans, quit, handles, kq, done, watches, fds>>]_vars

\* Close returned nil twice, the second call after the first had returned
SecondCloseWitness ==
  /\ build = "windows"
  /\ \E i, j \in DOMAIN results :
       /\ i <= results[j].started
       /\ results[i].op = "Close" /\ results[i].result = "nil"
       /\ results[j].op = "Close" /\ results[j].result = "nil"

\* C11: once Close has returned and every goroutine has run as far as it
\* can (the consumer receives whatever is sent, and nothing panicked), the
\* internal queue is closed, the dispatcher has left its loop and has
\* closed Event
DispatcherEndsAfterClose ==
  (/\ ShutdownCompleted
   /\ panicked = ""
   /\ ~ENABLED (NextWindows \/ NextForward))
    => /\ internalEvent = "closed"
       /\ dispatcher.pc = "exit"
       /\ eventChan = "closed"

\* the path of an event as the dispatcher of the build looks it up
EventPath(ev) == IF build = "windows" THEN ev.Name ELSE Path(ev)

\* C12: of two events of one path that were both delivered on Event, the one
\* the backend read first (the smaller id) was delivered first
DeliveredInObservedOrder ==
  \A i, j \in DOMAIN delivered :
    (i < j /\ EventPath(delivered[i].ev) = EventPath(delivered[j].ev))
      => delivered[i].ev.id < delivered[j].ev.id

\* two notifications of one file were read one after the other and both
\* were delivered
DeliveredInObservedOrderWitness ==
  /\ build = "windows"
  /\ Len(delivered) = 2
  /\ delivered[1].ev.Name = delivered[2].ev.Name
  /\ delivered[1].ev.id = 1 /\ delivered[2].ev.id = 2

(***************************************************************************)
(* Recursive watches.                                                      *)
(***************************************************************************)
\* the steps a pipeline runs for an event
StepsRun(pipeline, ev) ==
  LET ran == processEvent(pipeline, ev, clock).ran
  IN {ran[i] : i \in DOMAIN ran}

\* C13: when the dispatcher processes a Create event with a pipeline that
\* runs autoWatchStep, processEvent returns true, and if the path is a
\* directory (the stat succeeds) the directory is watched afterwards, with
\* that pipeline as its entry; otherwise no watch is added
AutoWatchRegistersDirectory ==
  [][(dispatcher.pc = "lookup" /\ dispatcher'.pc # "lookup") =>
       LET ev == dispatcher.ev
           path == Path(ev)
           pipeline == PipelineOf(pipelines, path)
       IN (IsCreate(ev) /\ "autoWatchStep" \in StepsRun(pipeline, ev)) =>
            /\ dispatcher'.forward
            /\ IF path \in backend.files /\ IsDir(path)
               THEN /\ backend'.watched = backend.watched \cup {path}
                    /\ path \in DOMAIN pipelines'
                    /\ pipelines'[path] = pipeline
               ELSE backend'.watched = backend.watched]_vars

\* C14: once the consumer has the Create event of the directory g/s, made
\* below a root that is watched recursively with Hidden, a file that is
\* created in g/s is notified to the reader (and so gets its Create event)
NewSubdirectoryIsWatched ==
  (/\ \E i \in DOMAIN delivered :
        /\ IsCreate(delivered[i].ev) /\ Path(delivered[i].ev) = FwdSubDir
        /\ delivered[i].found
        /\ delivered[i].entry.hidden
        /\ \E k \in DOMAIN delivered[i].entry.steps :
             delivered[i].entry.steps[k] = "autoWatchStep"
   /\ FwdSubDir \in backend.files /\ FwdSubFile \notin backend.files
   /\ FwdRunning /\ backend.pc = "read" /\ raw < MaxRaw)
    => ENABLED BackendRead("create", FwdSubFile)

\* a directory between root and path, both included, is hidden
HiddenOnTheWay(path, root) ==
  \E q \in TreePaths : Under(q, root) /\ Under(path, q) /\ isHidden(Base(q))

\* the directories a recursive watch of root is to register
RecursiveTargets(tree, root, hidden) ==
  {p \in tree : IsDir(p) /\ Under(p, root) /\ (hidden \/ ~HiddenOnTheWay(p, root))}

\* the result of the call that returns in this step
LastResult == results'[Len(results')].result

\* C15: a recursive WatchPath in which no registration fails registers the
\* pipeline of its options for exactly the directories of the tree below
\* the root (the root included) that are not in a hidden directory or hidden
\* themselves when Hidden is false, and for all directories when Hidden is
\* true; nothing else is registered
RecursiveWatchRegistersTree ==
  [][\A path \in RecursiveRoots, opt \in RecursiveOptions :
       (WatchPath(1, path, opt) /\ LastResult # "error") =>
         LET targets == RecursiveTargets(backend.files, path, opt.Hidden)
         IN /\ backend'.watched = backend.watched \cup targets
            /\ DOMAIN pipelines' = DOMAIN pipelines \cup targets
            /\ \A p \in targets : pipelines'[p] = newPipeline(opt)
            /\ \A p \in DOMAIN pipelines \ targets : pipelines'[p] = pipelines[p]]_vars

\* a recursive watch without Hidden has registered g and g/s and has left
\* out the hidden directory g/.h and the directory in it
RecursiveWatchRegistersTreeWitness ==
  /\ \E i \in DOMAIN results :
       /\ results[i].op = "WatchPath" /\ results[i].path = FwdRoot
       /\ results[i].result = "nil"
  /\ backend.watched = {FwdRoot, FwdSubDir}
  /\ {FwdHiddenDir, FwdInHidden} \subseteq backend.files
  /\ ~pipelines[FwdRoot].hidden
  /\ pipelines[FwdSubDir] = pipelines[FwdRoot]

\* C16: a recursive WatchPath of a root that does not exist or is not a
\* directory returns the error "No folders to watch." and registers nothing
RecursiveWatchOfNoDirectory ==
  [][\A path \in RecursiveRoots, opt \in RecursiveOptions :
       (WatchPath(1, path, opt) /\ (path \notin backend.files \/ ~IsDir(path))) =>
         /\ LastResult = "No folders to watch."
         /\ pipelines' = pipelines
         /\ backend'.watched = backend.watched]_vars

\* recursive watches of a missing directory and of a file have returned the
\* error
RecursiveWatchOfNoDirectoryWitness ==
  /\ \E i \in DOMAIN results :
       /\ results[i].result = "No folders to watch."
       /\ \/ results[i].path = FwdRoot /\ FwdRoot \notin backend.files
          \/ results[i].path = <<"c">> /\ <<"c">> \in backend.files
  /\ backend.watched = {}
  /\ pipelines = NoEntries

\* C17: a recursive WatchPath in which a registration fails returns the
\* error, and the folders registered are those that come before some folder
\* in the order of the walk: none after the failure is registered, those
\* before it and the watches there were stay
RecursiveWatchStopsAtFailure ==
  [][\A path \in RecursiveRoots, opt \in RecursiveOptions :
       (WatchPath(1, path, opt) /\ LastResult = "error") =>
         LET targets == RecursiveTargets(backend.files, path, opt.Hidden)
             folders == SelectSeq(WalkOrder, LAMBDA p : p \in targets)
         IN \E k \in DOMAIN folders :
              LET before == {folders[i] : i \in 1..(k - 1)}
              IN /\ backend'.watched = backend.watched \cup before
                 /\ DOMAIN pipelines' = DOMAIN pipelines \cup before
                 /\ \A p \in before : pipelines'[p] = newPipeline(opt)]_vars

\* the recursive watch of g failed at g/s: g is watched, g/s is not
RecursiveWatchStopsAtFailureWitness ==
  /\ \E i \in DOMAIN results :
       /\ results[i].op = "WatchPath" /\ results[i].path = FwdRoot
       /\ results[i].result = "error"
  /\ raw = 0
  /\ FwdSubDir \in backend.files
  /\ backend.watched = {FwdRoot}
  /\ DOMAIN pipelines = {FwdRoot}

(***************************************************************************)
(* Errors of the calls.                                                    *)
(***************************************************************************)
\* the calls that add and remove watches
WatchCalls == {"Watch", "WatchFlags", "WatchPath", "RemoveWatch"}

\* call j started after a Close call had returned
StartedAfterClose(started) == \E i \in 1..started : results[i].op = "Close"

\* C18: a watch call or a RemoveWatch call that started after a Close call
\* had returned returns the error of the closed watcher ("watcher is
\* closed", "kevent instance already closed"), and does not panic by
\* closing the channel of a watch a second time
CallsAfterCloseFail ==
  /\ \A j \in DOMAIN results :
       (results[j].op \in WatchCalls /\ StartedAfterClose(results[j].started))
         => results[j].result \in {"watcher is closed", "kevent instance already closed"}
  /\ \A c \in DOMAIN callers :
       (/\ callers[c].pc # "idle" /\ callers[c].op \in WatchCalls
        /\ StartedAfterClose(callers[c].started))
         => panicked # "close of closed channel: watch"

\* caller c returns from a call of RemoveWatch in this step
RemoveWatchReturns(c) ==
  /\ Len(results') = Len(results) + 1
  /\ results'[Len(results')].caller = c
  /\ results'[Len(results')].op = "RemoveWatch"

\* the path has no entry and no directory that is watched holds it
NotWatched(path) ==
  IF build = "windows"
  THEN /\ path \notin DOMAIN fsnFlags
       /\ path \notin DOMAIN dirWatches /\ Dir(path) \notin DOMAIN dirWatches
  ELSE path \notin DOMAIN watches /\ Dir(path) \notin DOMAIN watches

InitMasks ==
  /\ options = NoOptions /\ pipe = zeroPipeline /\ clock = 0 /\ trace = <<>>
  /\ build \in {"windows", "bsd"}
  /\ isClosed = FALSE
  /\ eventChan = "open"
  /\ errorChan = "open"
  /\ panicked = ""
  /\ delivered = <<>>
  /\ errorsSeen = 0
  /\ callers = <<>>
  /\ calls = 0
  /\ results = <<>>
  /\ raw = 0
  /\ retired = NoEntries
  /\ fsnFlags = NoEntries
  /\ dirWatches = NoEntries
  /\ watchChans = <<>>
  /\ mu = 0
  /\ readers = <<>>
  /\ forwarders = <<>>
  /\ quit = <<>>
  /\ handles = <<>>
  /\ dispatcher = [pc |-> "none"]
  /\ NoBsd
  /\ NoForward

\* the event is handed to the consumer as it is
Translated(ev) ==
  /\ delivered = <<>>
  /\ delivered' = <<[ev |-> ev]>>
  /\ UNCHANGED <<pipeVars, build, isClosed, eventChan, errorChan, panicked,
                 errorsSeen, callers, calls, results, raw, retired, fsnFlags,
                 dirWatches, watchChans, mu, readers, forwarders, quit, handles,
                 dispatcher, bsdVars, fwdVars>>

\* watchDirectory: &FileEvent{Name: fullname, mask: mask}
WinTranslate(mask) ==
  /\ build = "windows"
  /\ Translated([mask |-> mask, Name |-> <<"d", Separator, "f">>, id |-> 1])

\* readEvents: fileEvent.mask = uint32(watchEvent.Fflags)
BsdTranslate(mask) ==
  /\ build = "bsd"
  /\ Translated([mask |-> mask, Name |-> BsdFile, create |-> FALSE])

\* sendDirectoryChangeEvents: fileEvent.create = true
BsdSynthesize ==
  /\ build = "bsd"
  /\ Translated([mask |-> 0, Name |-> BsdFile, create |-> TRUE])

NextMasks ==
  \/ \E mask \in 0..MaxMask : WinTranslate(mask)
  \/ \E mask \in 0..MaxMask : BsdTranslate(mask)
  \/ BsdSynthesize

SpecMasks == InitMasks /\ [][NextMasks]_vars

\* the mask has the bit (bit is a power of two)
HasBit(mask, bit) == (mask \div bit) % 2 = 1

\* C26: the predicates of the event made of a native mask: IsRename iff the
\* mask has a moved-from, a moved-to (the two bits of the generic move) or
\* the move-self bit, on BSD the rename bit; IsDelete iff it has the delete
\* or the delete-self bit; IsModify iff it has the write or the attribute
\* bit; IsCreate iff it has the create bit, on BSD iff the event was
\* synthesized as a create
MaskPredicatesCorrect ==
  \A i \in DOMAIN delivered :
    LET e == delivered[i].ev
    IN /\ build = "windows" =>
            /\ WinIsRename(e) <=> \/ HasBit(e.mask, 64) \/ HasBit(e.mask, 128)
                                  \/ HasBit(e.mask, 2048)
            /\ WinIsDelete(e) <=> HasBit(e.mask, 512) \/ HasBit(e.mask, 1024)
            /\ WinIsModify(e) <=> HasBit(e.mask, 2) \/ HasBit(e.mask, 4)
            /\ WinIsCreate(e) <=> HasBit(e.mask, 256)
       /\ build = "bsd" =>
            /\ BsdIsRename(e) <=> HasBit(e.mask, 32)
            /\ BsdIsDelete(e) <=> HasBit(e.mask, 1)
            /\ BsdIsModify(e) <=> HasBit(e.mask, 2) \/ HasBit(e.mask, 8)
            /\ BsdIsCreate(e) <=> e.create

\* an event with the moved-from bit alone, which is a rename
MaskPredicatesWitness ==
  /\ build = "windows"
  /\ delivered # <<>>
  /\ delivered[1].ev.mask = sys_FS_MOVED_FROM
  /\ WinIsRename(delivered[1].ev)


(***************************************************************************)
(* Claims about the readers of the backends.                               *)
(***************************************************************************)
\* the step by which a reader goes on after a failed read gave the consumer
\* one error and no event, and the program runs on
Reported ==
  /\ errorsSeen' = errorsSeen + 1
  /\ delivered' = delivered
  /\ panicked' = ""
  /\ eventChan' = eventChan /\ errorChan' = errorChan

\* C21: when a read of a reader fails (kevent or the listing of a directory
\* on BSD, ReadDirectoryChanges on Windows), the consumer receives the error
\* on Error, the read produces no event, and the reader goes on with its
\* loop while the watcher stays as it was
ReadFailureIsReported ==
  [][/\ (kreader.pc \in {"sendError", "sendDirError"} /\ kreader'.pc # kreader.pc) =>
          /\ Reported
          /\ kreader'.pc \in {"loop", "send"}
          /\ kreader'.sending = <<>>
     /\ \A k \in DOMAIN readers :
          (readers[k].pc = "readFailed" /\ readers'[k].pc # "readFailed") =>
            /\ Reported
            /\ readers'[k].pc = "checkQuit"]_vars

\* C22: a watch or unwatch call that has returned holds no lock of the
\* watcher: w.mu is free, or held by a call that is still running
LocksReleasedOnReturn ==
  \A c \in DOMAIN callers : callers[c].pc = "idle" => mu # c

EventsFor(path) == {i \in DOMAIN delivered : delivered[i].ev.Name = path}

\* C24: for a dangling symbolic link that is created once in a watched
\* directory the consumer receives at most one event, a create event: later
\* notifications of the directory do not report the link again
SymlinkIsCreatedOnce ==
  build = "bsd" =>
    /\ Cardinality(EventsFor(BsdLink)) <= 1
    /\ \A i \in EventsFor(BsdLink) : delivered[i].ev.create

\* the snapshot of the directory: its entries that w.watches has
Snapshot(table) == DOMAIN table \ {BsdDir}

\* the reader takes up a notification of a change of the directory, and it
\* has finished with one
TakesUpDirectory ==
  /\ kreader.pc = "flush" /\ kreader'.pc = "send" /\ kreader'.dir = BsdDir
FinishesDirectory ==
  /\ kreader.pc = "send" /\ kreader.dir = BsdDir /\ kreader'.pc = "flush"

\* C25: on a notification of a change of the directory, the create events
\* are those of the entries the directory has and the snapshot has not, one
\* for each; and when the reader has finished with the notification, the
\* snapshot is the listing of the directory
SnapshotFollowsDirectory ==
  [][/\ TakesUpDirectory =>
          /\ {kreader'.sending[i].Name : i \in DOMAIN kreader'.sending} = files \ Snapshot(watches)
          /\ Len(kreader'.sending) = Cardinality(files \ Snapshot(watches))
          /\ \A i \in DOMAIN kreader'.sending : kreader'.sending[i].create
     /\ (FinishesDirectory /\ BsdNextEvent(TRUE)) => Snapshot(watches') = files]_vars

\* the watched directories whose reader gives its events the name
WatchedDirsOf(name) ==
  {readers[k].path : k \in {j \in DOMAIN readers :
      \E file \in WinNames : name = Base(readers[j].path) \o <<Separator>> \o file}}

\* C27: an event of a file of a watched directory, registered with flags
\* that are not FSN_ALL, is handed to the consumer only if one of its
\* predicates is in the flags of that directory
ChildEventsUseDirectoryFlags ==
  [][(/\ build = "windows"
      /\ Len(delivered') = Len(delivered) + 1) =>
        LET ev == delivered'[Len(delivered')].ev
        IN \A dir \in WatchedDirsOf(ev.Name) :
             (/\ WatchedDirsOf(ev.Name) = {dir}
              /\ dir \in DOMAIN fsnFlags
              /\ fsnFlags[dir] # FSN_ALL) =>
               purgeSendEvent(fsnFlags[dir], ev)]_vars


(***************************************************************************)
(* A pipeline of every Options value: which steps it has, which of them    *)
(* run for an event.                                                       *)
(***************************************************************************)
PipelineOptions ==
  [Verbose : BOOLEAN, Hidden : BOOLEAN, Triggers : {0, Modify, allTriggers},
   Pattern : {<<>>, <<"g">>}, Throttle : BOOLEAN, Recursive : BOOLEAN]

PipelineEvents ==
  {[create |-> c, delete |-> FALSE, modify |-> ~c, rename |-> FALSE, path |-> path] :
     c \in BOOLEAN, path \in {<<"g">>, <<"c">>, <<".", "g">>}}

ProcessPipeline ==
  /\ Len(trace) < MaxTrace
  /\ \E event \in PipelineEvents : Process(event)

InitPipeline == InitPipe(PipelineOptions)
NextPipeline == ProcessPipeline
SpecPipeline == InitPipeline /\ [][NextPipeline]_vars

\* a step other than the throttle rejects the event
Rejects(step, event) ==
  /\ step # "throttleStep"
  /\ ~RunStep(step, pipe, NoTimes, event, 0).forward

\* the event processed by this step of the program, with what became of it
Processed == trace'[Len(trace')]

\* C28: processEvent runs the steps in the order of the pipeline and stops at
\* the first step that rejects: the steps that ran are the steps up to that
\* one, none of them but the last rejected, and an event rejected before
\* the throttle leaves the times of the throttle as they were
AbortsAtFirstRejection ==
  [][Len(trace') = Len(trace) + 1 =>
       LET ran == Processed.ran
           event == Processed.event
       IN /\ ran = SubSeq(pipe.steps, 1, Len(ran))
          /\ \A j \in 1..(Len(ran) - 1) : ~Rejects(ran[j], event)
          /\ Len(ran) < Len(pipe.steps) =>
               /\ ran # <<>>
               /\ Rejects(ran[Len(ran)], event)
               /\ ~Processed.forward
          /\ Processed.forward => ran = pipe.steps
          /\ (\A j \in DOMAIN ran : ran[j] # "throttleStep") =>
               pipe'.lastEventAt = pipe.lastEventAt]_vars

\* the hidden filter rejected an event in a pipeline that has a trigger
\* filter, a pattern filter and a throttle after it: none of them ran and
\* the throttle has no time for the path
AbortsAtFirstRejectionWitness ==
  /\ build = "none"
  /\ pipe.steps = <<"verboseStep", "hiddenStep", "autoWatchStep", "triggerStep",
                    "patternStep", "throttleStep">>
  /\ Len(trace) = 1
  /\ trace[1].event.path = <<".", "g">>
  /\ trace[1].ran = <<"verboseStep", "hiddenStep">>
  /\ ~trace[1].forward
  /\ pipe.lastEventAt = NoTimes


\* the order newPipeline appends the steps in
StepOrder ==
  <<"verboseStep", "hiddenStep", "autoWatchStep", "triggerStep", "patternStep",
    "throttleStep">>

\* the option of a step is active
Active(opt, step) ==
  CASE step = "verboseStep" -> opt.Verbose
    [] step = "hiddenStep" -> opt.Hidden = FALSE
    [] step = "autoWatchStep" -> opt.Recursive
    [] step = "triggerStep" -> opt.Triggers \notin {allTriggers, 0}
    [] step = "patternStep" -> opt.Pattern # <<>>
    [] step = "throttleStep" -> opt.Throttle

PositionOf(step) == CHOOSE k \in DOMAIN StepOrder : StepOrder[k] = step

\* the steps are the steps of the active options, each once, in the order
\* of StepOrder
StepsOfOptions(steps, opt) ==
  /\ \A k \in DOMAIN StepOrder :
       Active(opt, StepOrder[k]) <=> \E i \in DOMAIN steps : steps[i] = StepOrder[k]
  /\ \A i \in DOMAIN steps : \E k \in DOMAIN StepOrder : steps[i] = StepOrder[k]
  /\ \A i, j \in DOMAIN steps : i < j => PositionOf(steps[i]) < PositionOf(steps[j])

NoOptionActive(opt) == \A k \in DOMAIN StepOrder : ~Active(opt, StepOrder[k])

\* C29: the pipeline newPipeline builds has exactly the steps whose option
\* is active, in the order verbose, hidden, auto-watch, trigger, pattern,
\* throttle; the steps never change afterwards; with no option active there
\* are no steps and every event is forwarded
StepsFixedAtConstruction ==
  /\ StepsOfOptions(pipe.steps, options)
  /\ NoOptionActive(options) => pipe.steps = <<>>
  /\ [][/\ pipe'.steps = pipe.steps
        /\ options' = options
        /\ (NoOptionActive(options) /\ Len(trace') = Len(trace) + 1) =>
             trace'[Len(trace')].forward]_vars

\* the pipeline of the options that are all active has processed events and
\* has its six steps, and its last event ran them all
StepsFixedWitness ==
  /\ build = "none"
  /\ \A k \in DOMAIN StepOrder : Active(options, StepOrder[k])
  /\ pipe.steps = StepOrder
  /\ Len(trace) = MaxTrace
  /\ trace[Len(trace)].ran = StepOrder
  /\ trace[Len(trace)].forward


(***************************************************************************)
(* A throttle behind the other filters: events of a path that the hidden,  *)
(* trigger and pattern filters reject, and events they accept, in time.    *)
(***************************************************************************)
FilteredOptions ==
  [Verbose : {FALSE}, Hidden : {FALSE}, Triggers : {Modify},
   Pattern : {<<>>, <<"g">>}, Throttle : {TRUE}, Recursive : {FALSE}]

FilteredEvents ==
  {[create |-> c, delete |-> FALSE, modify |-> ~c, rename |-> FALSE, path |-> path] :
     c \in BOOLEAN, path \in {<<"g">>}}
  \cup {[create |-> FALSE, delete |-> FALSE, modify |-> TRUE, rename |-> FALSE,
         path |-> path] : path \in {<<"c">>, <<".", "g">>}}

ProcessFiltered ==
  /\ Len(trace) < MaxTrace
  /\ \E event \in FilteredEvents : Process(event)

InitFiltered == InitPipe(FilteredOptions)
NextFiltered == ProcessFiltered \/ Tick
SpecFiltered == InitFiltered /\ [][NextFiltered]_vars

\* a filter other than the throttle rejects the event
RejectedByFilter(event) ==
  \E i \in DOMAIN pipe.steps : Rejects(pipe.steps[i], event)

\* the events of the trace before the i-th that had its path, at most a
\* second before it
RecentBefore(tr, i) ==
  {j \in 1..(i - 1) : /\ tr[j].event.path = tr[i].event.path
                      /\ tr[i].at - tr[j].at <= OneSecond}

\* C30: the throttle records a time for a path only when the pipeline
\* forwards the event: an event that is rejected leaves lastEventAt as it
\* was, and an event the other filters accept is forwarded unless an event
\* of its path was forwarded within the last second, whatever events of
\* the path were rejected in that second
ThrottleCountsForwardedOnly ==
  [][Len(trace') = Len(trace) + 1 =>
       LET i == Len(trace')
       IN /\ ~trace'[i].forward => pipe'.lastEventAt = pipe.lastEventAt
          /\ trace'[i].forward =>
               /\ Path(trace'[i].event) \in DOMAIN pipe'.lastEventAt
               /\ pipe'.lastEventAt[Path(trace'[i].event)] = clock
          /\ (/\ ~RejectedByFilter(trace'[i].event)
              /\ \A j \in RecentBefore(trace', i) : ~trace'[j].forward)
               => trace'[i].forward]_vars

\* a Create event of g was rejected by the trigger filter, and a Modify
\* event of g less than a second later was forwarded
ThrottleCountsForwardedOnlyWitness ==
  /\ build = "none"
  /\ options.Throttle /\ options.Triggers = Modify /\ options.Pattern = <<"g">>
  /\ Len(trace) = 2
  /\ trace[1].event.path = <<"g">> /\ trace[1].event.create /\ ~trace[1].forward
  /\ trace[2].event.path = <<"g">> /\ trace[2].event.modify /\ trace[2].forward
  /\ trace[2].at - trace[1].at = 1
  /\ trace[2].at - trace[1].at < OneSecond


\* C31: an event that the throttle rejects does not refresh the time of its
\* path: with only the throttle configured, an event that arrives more
\* than one second after the last forwarded event of its path is
\* forwarded, however many events of the path were rejected in between
ThrottleIsLeadingEdge ==
  \A i \in DOMAIN trace :
    (/\ options.Throttle /\ TriggersInactive(options) /\ options.Hidden
     /\ options.Pattern = <<>>
     /\ ForwardedBefore(i) # {}
     /\ trace[i].at - trace[LastOf(ForwardedBefore(i))].at > OneSecond)
      => trace[i].forward

\* an event of g was forwarded, a second one a second later was rejected,
\* and a third one, half a second after the rejected one, was forwarded
ThrottleIsLeadingEdgeWitness ==
  /\ Len(trace) = 3
  /\ options.Throttle /\ TriggersInactive(options)
  /\ \A i \in 1..3 : trace[i].event.path = <<"g">>
  /\ trace[1].forward /\ ~trace[2].forward /\ trace[3].forward
  /\ trace[2].at - trace[1].at = OneSecond
  /\ trace[3].at - trace[2].at < OneSecond


(***************************************************************************)
(* The build with the pipelines, with directories made below a directory   *)
(* that is watched recursively, with and without Create among the          *)
(* triggers.                                                               *)
(***************************************************************************)
AutoWatchOptions ==
  {[Verbose |-> FALSE, Hidden |-> h, Triggers |-> t, Pattern |-> <<>>,
    Throttle |-> FALSE, Recursive |-> TRUE] : h \in BOOLEAN, t \in {allTriggers, Modify}}

AutoWatchDirs == {FwdSubDir, FwdHiddenDir}

InitAutoWatch == InitFwd({{<<"c">>, FwdRoot}})

NextAutoWatch ==
  \/ FwdRunning /\ \E opt \in AutoWatchOptions : WatchPath(1, FwdRoot, opt)
  \/ FwdRunning /\ \E kind \in RecursiveKinds, path \in AutoWatchDirs :
                      BackendRead(kind, path)
  \/ FwdRunning /\ ForwardReceive
  \/ FwdRunning /\ ForwardLookup
  \/ FwdRunning /\ ForwardSend
  \/ FwdRunning /\ ForwardDelete

SpecAutoWatch == InitAutoWatch /\ [][NextAutoWatch]_vars

\* the dispatcher runs processEvent on the Create event of a directory,
\* with a pipeline that has the auto-watch step
AutoWatchRuns ==
  /\ build = "pipeline"
  /\ dispatcher.pc = "lookup" /\ dispatcher'.pc # "lookup"
  /\ IsCreate(dispatcher.ev)
  /\ IsDir(Path(dispatcher.ev))
  /\ \E i \in DOMAIN PipelineOf(pipelines, Path(dispatcher.ev)).steps :
       PipelineOf(pipelines, Path(dispatcher.ev)).steps[i] = "autoWatchStep"

\* C32: the auto-watch step runs after the hidden filter and before the
\* trigger filter: the Create event of a new directory registers a watch of
\* the directory, also when the triggers exclude Create and the event is
\* not forwarded; with Hidden = false the Create event of a hidden
\* directory registers no watch
AutoWatchBeforeTriggers ==
  [][AutoWatchRuns =>
       LET path == Path(dispatcher.ev)
           p == PipelineOf(pipelines, path)
       IN IF ~p.hidden /\ isHidden(Base(path))
          THEN /\ backend'.watched = backend.watched
               /\ ~dispatcher'.forward
          ELSE /\ path \in backend'.watched
               /\ (p.triggers # 0 /\ ~HasTrigger(p.triggers, Create))
                    => ~dispatcher'.forward]_vars


(***************************************************************************)
(* Pattern lists with a malformed glob.                                    *)
(***************************************************************************)
BadPatternLists ==
  { <<"[">>,
    <<"[", ",", "g">>,
    <<"g", ",", "[">>,
    <<"*", "[", ",", "?">>,
    <<"c", "\\", ",", "g", "*">>,
    <<"g", "[", "c", ",", "[", "^">> }

BadPatternOptions ==
  [Verbose : {FALSE}, Hidden : {TRUE}, Triggers : {0},
   Pattern : BadPatternLists, Throttle : {FALSE}, Recursive : {FALSE}]

BadPatternEvents ==
  {[create |-> FALSE, delete |-> FALSE, modify |-> TRUE, rename |-> FALSE,
    path |-> path] :
     path \in {<<"g">>, <<"c">>, <<"g", "c">>, <<"c", "/", "g">>, <<"[">>}}

ProcessBadPattern ==
  /\ Len(trace) < MaxTrace
  /\ \E event \in BadPatternEvents : Process(event)

InitBadPattern == InitPipe(BadPatternOptions)
NextBadPattern == ProcessBadPattern
SpecBadPattern == InitBadPattern /\ [][NextBadPattern]_vars

\* a glob with a character class that is not closed, or that ends with the
\* escape character
Malformed(glob) ==
  \/ \E i \in DOMAIN glob :
       /\ glob[i] = "["
       /\ \A j \in (i + 1)..Len(glob) : glob[j] # "]"
  \/ glob # <<>> /\ glob[Len(glob)] = "\\"

\* C33: a malformed glob of the pattern list counts as a non-match and the
\* other globs of the list are still tried: the event is accepted iff a
\* well-formed glob of the list matches the leaf of its path
MalformedGlobIsNoMatch ==
  \A i \in DOMAIN trace :
    (/\ options.Pattern # <<>> /\ options.Hidden /\ TriggersInactive(options)
     /\ ~options.Throttle) =>
      LET leaf == LeafOf(trace[i].event.path)
          globs == Split(options.Pattern, ",")
      IN trace[i].forward <=>
           \E k \in DOMAIN globs :
             ~Malformed(globs[k]) /\ GlobMatches(globs[k], leaf)

\* the first glob of the list is malformed and the second matched the leaf;
\* an event that is the malformed glob, letter by letter, was rejected
MalformedGlobWitness ==
  /\ Len(trace) = 2
  /\ options.Pattern = <<"[", ",", "g">>
  /\ Malformed(Split(options.Pattern, ",")[1])
  /\ trace[1].event.path = <<"c", "/", "g">> /\ trace[1].forward
  /\ trace[2].event.path = <<"[">> /\ ~trace[2].forward


(***************************************************************************)
(* A path is watched by one goroutine and unwatched by another.            *)
(***************************************************************************)
Unwatchers == {2}

NextUnwatch ==
  \/ WinRunning /\ \E path \in WinPaths : WinCallWatchFlags(1, path, FSN_ALL)
  \/ WinRunning /\ WinWatchCheck(1)
  \/ WinRunning /\ WinWatchLock(1)
  \/ WinRunning /\ WinWatchBody(1)
  \/ WinRunning /\ \E c \in Unwatchers, path \in WinRemovePaths : WinCallRemoveWatch(c, path)
  \/ WinRunning /\ \E c \in Unwatchers : WinRemoveWatch(c)
  \/ WinRunning /\ \E k \in WatchIds : WinForwardDone(k)
  \/ WinRunning /\ \E k \in WatchIds : WinReadClosed(k)
  \/ WinRunning /\ \E k \in WatchIds : WinCheckQuit(k)
  \/ BsdRunning /\ \E path \in BsdWatchPaths : BsdWatch(1, path, TRUE)
  \/ BsdRunning /\ \E c \in Unwatchers, path \in BsdWatchPaths, deleted \in BOOLEAN :
                      BsdRemoveWatch(c, path, deleted)
  \/ BsdRunning /\ \E file \in BsdFiles : BsdFsCreate(file, MaxChanges)
  \/ BsdRunning /\ \E file \in BsdFiles : BsdFsRemove(file, MaxChanges)

SpecUnwatch == InitReaders /\ [][NextUnwatch]_vars

\* a call has returned in this step; the call
CallReturns == Len(results') = Len(results) + 1
ReturnedCall == results'[Len(results')]

\* a watch of the path has returned nil before
WatchedBefore(path) ==
  \E i \in DOMAIN results :
    /\ results[i].op \in {"WatchFlags", "Watch"}
    /\ results[i].path = path
    /\ results[i].result = "nil"

\* the path was unwatched by the call that returned last
UnwatchedLast(path) ==
  /\ results # <<>>
  /\ results[Len(results)].op = "RemoveWatch"
  /\ results[Len(results)].path = path
  /\ results[Len(results)].result = "nil"

\* the directory handles whose channel is in the table
TableHandles(table) == {table[dir] : dir \in DOMAIN table}

\* C34: an unwatch of a watched path, which returns nil, releases the native
\* resource acquired for the path and signals its reader: the table of the
\* backend has no entry for it afterwards; the unwatch releases no resource
\* of a path that is still watched; and a watch of the path after the
\* unwatch has an open resource of its own when it returns nil
UnwatchReleasesResource ==
  [][(CallReturns /\ ReturnedCall.result = "nil") =>
       LET path == ReturnedCall.path
       IN /\ (ReturnedCall.op = "RemoveWatch" /\ WatchedBefore(path) /\ build = "windows") =>
               /\ \A k \in WatchIds :
                    readers[k].path = path =>
                      watchChans'[k] = "closed" /\ k \notin TableHandles(dirWatches')
               /\ \A k \in WatchIds :
                    (watchChans[k] = "open" /\ watchChans'[k] = "closed") =>
                      readers[k].path \notin DOMAIN fsnFlags'
          /\ (ReturnedCall.op = "RemoveWatch" /\ WatchedBefore(path) /\ build = "bsd") =>
               /\ path \notin DOMAIN watches'
               /\ \A fd \in DOMAIN fds' : fds'[fd].node # path
               /\ \A fd \in DOMAIN fds \ DOMAIN fds' : fds[fd].node = path
          /\ (ReturnedCall.op \in {"WatchFlags", "Watch"} /\ UnwatchedLast(path)) =>
               IF build = "windows"
               THEN \E k \in TableHandles(dirWatches') :
                      readers'[k].path = path /\ watchChans'[k] = "open"
               ELSE /\ path \in DOMAIN watches'
                    /\ watches'[path] \in DOMAIN fds']_vars


(***************************************************************************)
(* Close while the readers run: goroutine 1 watches the directory,         *)
(* goroutine 2 closes the watcher, one call after the other; a goroutine   *)
(* that can take a step takes it in the end.                               *)
(***************************************************************************)
WinCloseSteps ==
  \E c \in Closers :
    \/ WinCloseCheck(c) \/ WinCloseSet(c) \/ WinCloseChans(c)
    \/ WinCloseEvent(c) \/ WinCloseError(c)

WinWatchSteps == WinWatchCheck(1) \/ WinWatchLock(1) \/ WinWatchBody(1)

BsdCloseSteps ==
  \E c \in Closers :
    \/ BsdCloseCheck(c) \/ BsdCloseSet(c) \/ BsdCloseDone(c)
    \/ \E deleted \in SUBSET BsdWatchPaths : BsdCloseRemove(c, deleted)

\* the user starts a call when no other call runs
NoCallRuns == \A c \in Callers : callers[c].pc = "idle"

NextClosing ==
  \/ WinRunning /\ NoCallRuns /\ \E flags \in WinFlags : WinCallWatchFlags(1, BsdDir, flags)
  \/ WinRunning /\ WinWatchSteps
  \/ WinRunning /\ NoCallRuns /\ \E c \in Closers : WinCallClose(c)
  \/ WinRunning /\ WinCloseSteps
  \/ WinRunning /\ \E k \in WatchIds, action \in WinActions, name \in WinNames : WinRead(k, action, name)
  \/ WinRunning /\ \E k \in WatchIds : WinReadClosed(k)
  \/ WinRunning /\ \E k \in WatchIds : WinCheckQuit(k)
  \/ WinRunning /\ \E k \in WatchIds : WinForwardReceive(k)
  \/ WinRunning /\ \E k \in WatchIds : WinForwardSetFlags(k)
  \/ WinRunning /\ \E k \in WatchIds : WinForwardDone(k)
  \/ WinRunning /\ \E k \in WatchIds : PurgeReceive(k)
  \/ WinRunning /\ PurgeLookup
  \/ WinRunning /\ PurgeSend
  \/ WinRunning /\ PurgeSendClosed
  \/ WinRunning /\ PurgeDelete
  \/ BsdRunning /\ NoCallRuns /\ BsdWatch(1, BsdDir, TRUE)
  \/ BsdRunning /\ NoCallRuns /\ \E c \in Closers : BsdCallClose(c)
  \/ BsdRunning /\ BsdCloseSteps
  \/ BsdRunning /\ \E file \in BsdFiles : BsdFsCreate(file, MaxChanges)
  \/ BsdRunning /\ BsdPoll
  \/ BsdRunning /\ BsdClosing
  \/ BsdRunning /\ BsdKevent
  \/ BsdRunning /\ BsdFlush(TRUE)
  \/ BsdRunning /\ BsdSend
  \/ BsdRunning /\ BsdNextEvent(TRUE)

\* every goroutine that is in a call or in a loop goes on when it can, and
\* the consumer receives what is sent to it; the user need not start a call
\* and the files need not change
ClosingFairness ==
  /\ WF_vars(WinRunning /\ WinWatchSteps)
  /\ WF_vars(WinRunning /\ WinCloseSteps)
  /\ \A k \in 1..MaxCalls :
       /\ WF_vars(WinRunning /\ k \in WatchIds /\ WinReadClosed(k))
       /\ WF_vars(WinRunning /\ k \in WatchIds /\ WinCheckQuit(k))
       /\ WF_vars(WinRunning /\ k \in WatchIds /\ WinForwardReceive(k))
       /\ WF_vars(WinRunning /\ k \in WatchIds /\ WinForwardSetFlags(k))
       /\ WF_vars(WinRunning /\ k \in WatchIds /\ WinForwardDone(k))
       /\ WF_vars(WinRunning /\ k \in WatchIds /\ PurgeReceive(k))
  /\ WF_vars(WinRunning /\ PurgeLookup)
  /\ WF_vars(WinRunning /\ PurgeSend)
  /\ WF_vars(WinRunning /\ PurgeSendClosed)
  /\ WF_vars(WinRunning /\ PurgeDelete)
  /\ WF_vars(BsdRunning /\ BsdCloseSteps)
  /\ WF_vars(BsdRunning /\ BsdPoll)
  /\ WF_vars(BsdRunning /\ BsdClosing)
  /\ WF_vars(BsdRunning /\ BsdKevent)
  /\ WF_vars(BsdRunning /\ BsdFlush(TRUE))
  /\ WF_vars(BsdRunning /\ BsdSend)
  /\ WF_vars(BsdRunning /\ BsdNextEvent(TRUE))

SpecClosing == InitReaders /\ [][NextClosing]_vars /\ ClosingFairness

\* every reader has ended and its native handle is released
ReadersStopped ==
  IF build = "windows"
  THEN \A k \in WatchIds :
         /\ readers[k].pc = "exit"
         /\ forwarders[k].pc = "exit"
         /\ handles[k] = "closed"
  ELSE /\ kreader.pc = "exit"
       /\ kq = "closed"
       /\ fds = NoEntries

\* C35: after Close is called every reader ends and its native handle is
\* released in the end (or the program has ended with a panic), also when
\* the reader was handing over an event when the stop signal arrived
ReadersStopAfterClose ==
  [](isClosed => <>(panicked # "" \/ ReadersStopped))


(***************************************************************************)
(* forwardEvents with its lock: in the build with the pipelines mu is      *)
(* w.pipelinesmut, which the dispatcher takes for the lookup and for the   *)
(* delete, and WatchPath and RemoveWatch for their change of the table.    *)
(***************************************************************************)
\* the dispatcher is the goroutine after those of the user
Dispatcher == Cardinality(Callers) + 1

\* the variables of FwdUnused without the lock
FwdUnlocked ==
  <<pipeVars, build, errorsSeen, fsnFlags, dirWatches, watchChans, readers,
    forwarders, quit, handles, bsdVars>>

\* forwardEvents: w.pipelinesmut.Lock()
ForwardLock ==
  /\ dispatcher.pc = "lookup" /\ mu = 0
  /\ mu' = Dispatcher
  /\ dispatcher' = [dispatcher EXCEPT !.pc = "locked"]
  /\ UNCHANGED <<FwdUnlocked, isClosed, eventChan, errorChan, panicked, delivered,
                 callers, calls, results, raw, retired, pipelines, internalEvent,
                 backend>>

\* forwardEvents that keeps the lock for processEvent and the send
ForwardReadKeepsLock ==
  /\ dispatcher.pc = "locked"
  /\ dispatcher' = [dispatcher EXCEPT
                      !.found = Path(dispatcher.ev) \in DOMAIN pipelines,
                      !.pipeline = PipelineOf(pipelines, Path(dispatcher.ev)),
                      !.pc = "process"]
  /\ UNCHANGED <<FwdUnlocked, mu, isClosed, eventChan, errorChan, panicked, delivered,
                 callers, calls, results, raw, retired, pipelines, internalEvent,
                 backend>>

\* forwardEvents: pipeline := w.pipelines[ev.Path()]; w.pipelinesmut.Unlock()
ForwardRead ==
  /\ dispatcher.pc = "locked"
  /\ mu' = 0
  /\ dispatcher' = [dispatcher EXCEPT
                      !.found = Path(dispatcher.ev) \in DOMAIN pipelines,
                      !.pipeline = PipelineOf(pipelines, Path(dispatcher.ev)),
                      !.pc = "process"]
  /\ UNCHANGED <<FwdUnlocked, isClosed, eventChan, errorChan, panicked, delivered,
                 callers, calls, results, raw, retired, pipelines, internalEvent,
                 backend>>

\* forwardEvents: forward := pipeline.processEvent(ev), with the pipeline
\* that was looked up
ForwardProcess ==
  /\ dispatcher.pc = "process"
  /\ LET path == Path(dispatcher.ev)
         r == processEvent(dispatcher.pipeline, dispatcher.ev, clock)
     IN /\ dispatcher' = [dispatcher EXCEPT
                            !.forward = r.forward,
                            !.pc = IF r.forward THEN "send"
                                   ELSE ForwardAfterSend(dispatcher.ev)]
        /\ pipelines' = IF dispatcher.found /\ path \in DOMAIN pipelines
                        THEN [pipelines EXCEPT ![path].lastEventAt = r.times]
                        ELSE pipelines
  /\ UNCHANGED <<FwdUnused, isClosed, eventChan, errorChan, panicked, delivered,
                 callers, calls, results, raw, retired, internalEvent, backend>>

\* forwardEvents, Delete event: w.pipelinesmut.Lock()
ForwardDeleteLock ==
  /\ dispatcher.pc = "delete" /\ mu = 0
  /\ mu' = Dispatcher
  /\ dispatcher' = [dispatcher EXCEPT !.pc = "deleting"]
  /\ UNCHANGED <<FwdUnlocked, isClosed, eventChan, errorChan, panicked, delivered,
                 callers, calls, results, raw, retired, pipelines, internalEvent,
                 backend>>

\* forwardEvents: delete(w.pipelines, ev.Path()); w.pipelinesmut.Unlock()
ForwardDeleteUnlock ==
  /\ dispatcher.pc = "deleting"
  /\ mu' = 0
  /\ pipelines' = Remove(pipelines, Path(dispatcher.ev))
  /\ retired' = Put(retired, Path(dispatcher.ev), raw)
  /\ dispatcher' = [dispatcher EXCEPT !.pc = "range"]
  /\ UNCHANGED <<FwdUnlocked, isClosed, eventChan, errorChan, panicked, delivered,
                 callers, calls, results, raw, internalEvent, backend>>

\* goroutine 1 watches, goroutine 2 unwatches; both take the lock for their
\* change of the table
NextLocking ==
  \/ FwdRunning /\ mu = 0 /\ \E path \in FwdPaths, opt \in FwdOptions : WatchPath(1, path, opt)
  \/ FwdRunning /\ mu = 0 /\ \E c \in Unwatchers, path \in FwdPaths : FwdRemoveWatch(c, path)
  \/ FwdRunning /\ \E kind \in FwdKinds, path \in FwdPaths : BackendRead(kind, path)
  \/ FwdRunning /\ ForwardReceive
  \/ FwdRunning /\ ForwardLock
  \/ FwdRunning /\ ForwardRead
  \/ FwdRunning /\ ForwardProcess
  \/ FwdRunning /\ ForwardSend
  \/ FwdRunning /\ ForwardDeleteLock
  \/ FwdRunning /\ ForwardDeleteUnlock

SpecLocking == InitForward /\ [][NextLocking]_vars

\* C36: the dispatcher does not hold the lock of the table while it runs
\* processEvent or waits in the send on Event, so that a watch or an unwatch
\* can take the lock then
DispatcherUnlockedWhileProcessing ==
  (build = "pipeline" /\ dispatcher.pc \in {"process", "send"}) =>
    /\ mu # Dispatcher
    /\ \A path \in FwdPaths :
         callers[2].pc = "idle" /\ results = <<>> => ENABLED FwdRemoveWatch(2, path)

\* an event waits in the send on Event, with the pipeline that was looked
\* up for it, and an unwatch has meanwhile removed the entry of its path
DispatcherUnlockedWitness ==
  /\ build = "pipeline"
  /\ dispatcher.pc = "send"
  /\ dispatcher.found
  /\ Path(dispatcher.ev) \notin DOMAIN pipelines
  /\ results # <<>>
  /\ results[Len(results)].op = "RemoveWatch"
  /\ results[Len(results)].path = Path(dispatcher.ev)
  /\ mu = 0


(***************************************************************************)
(* The watched directory itself is removed: its descriptor gets            *)
(* NOTE_DELETE, which the kernel adds to the notes that are still pending  *)
(* for the descriptor.                                                     *)
(***************************************************************************)
MaxDirChanges == 2

\* the empty directory is removed; nothing changes in it afterwards
BsdFsRemoveDir ==
  /\ raw < MaxDirChanges /\ files = {}
  /\ raw' = MaxDirChanges
  /\ kpending' = Notify(kpending, BsdDir, NOTE_DELETE)
  /\ UNCHANGED <<BsdUnused, isClosed, eventChan, errorChan, panicked, delivered,
                 errorsSeen, callers, calls, results, kq, watches, paths, finfo,
                 done, files, fds, kreader>>

\* a directory or a file is watched, files come and go, the directory is
\* removed; ioutil.ReadDir may fail
NextBsdDir ==
  \/ BsdRunning /\ \E path \in BsdWatchPaths : BsdWatch(1, path, TRUE)
  \/ BsdRunning /\ \E file \in BsdFiles : BsdFsCreate(file, MaxDirChanges)
  \/ BsdRunning /\ \E file \in BsdFiles : BsdFsRemove(file, MaxDirChanges)
  \/ BsdRunning /\ \E file \in BsdFiles : BsdFsWrite(file, MaxDirChanges)
  \/ BsdRunning /\ BsdFsRemoveDir
  \/ BsdRunning /\ BsdPoll
  \/ BsdRunning /\ BsdKevent
  \/ BsdRunning /\ \E readable \in BOOLEAN : BsdFlush(readable)
  \/ BsdRunning /\ BsdSendDirError
  \/ BsdRunning /\ BsdSend
  \/ BsdRunning /\ \E readable \in BOOLEAN : BsdNextEvent(readable)

SpecBsdDir == InitBsd /\ [][NextBsdDir]_vars

\* readEvents turns the first of its kernel events into what it sends
Flushes ==
  /\ kreader.pc = "flush" /\ kreader.events # <<>>
  /\ kreader'.pc # "flush" /\ panicked' = ""

\* the events that readEvents is about to send have a Delete event for name
SendsDelete(name) ==
  \E i \in DOMAIN kreader'.sending :
    BsdIsDelete(kreader'.sending[i]) /\ kreader'.sending[i].Name = name

\* a kernel event with NOTE_DELETE, for a file or for a directory
DeleteNoted(isDir) ==
  /\ BitAnd(Head(kreader.events).Fflags, NOTE_DELETE) = NOTE_DELETE
  /\ finfo[Head(kreader.events).Ident] = isDir

\* C37: every kernel event with NOTE_DELETE becomes an event with IsDelete
\* for the path of its descriptor, for a file and for a directory, whatever
\* other notes it carries
DeleteBitYieldsDelete ==
  [][(Flushes /\ (DeleteNoted(TRUE) \/ DeleteNoted(FALSE)))
       => SendsDelete(paths[Head(kreader.events).Ident])]_vars

\* the half of C37 that is about files
FileDeleteBitYieldsDelete ==
  [][(Flushes /\ DeleteNoted(FALSE))
       => SendsDelete(paths[Head(kreader.events).Ident])]_vars

\* the half of C37 about a directory whose event carries no write or
\* attribute note
PlainDirDeleteYieldsDelete ==
  [][(Flushes /\ DeleteNoted(TRUE)
        /\ BitAnd(Head(kreader.events).Fflags, BitOr(NOTE_WRITE, NOTE_ATTRIB)) = 0)
       => SendsDelete(paths[Head(kreader.events).Ident])]_vars


(***************************************************************************)
(* The consumer watches a path again when it has received the Delete event *)
(* of the path: goroutine 2 is the consumer.                               *)
(***************************************************************************)
Consumers == {2}

\* the event that the consumer received last is the Delete event of path
ReceivedDelete(path) ==
  /\ delivered # <<>>
  /\ IsDelete(delivered[Len(delivered)].ev)
  /\ Path(delivered[Len(delivered)].ev) = path

NextRewatch ==
  \/ FwdRunning /\ \E path \in FwdPaths, opt \in FwdOptions : WatchPath(1, path, opt)
  \/ FwdRunning /\ \E c \in Consumers, path \in FwdPaths, opt \in FwdOptions :
       ReceivedDelete(path) /\ WatchPath(c, path, opt)
  \/ FwdRunning /\ \E kind \in FwdKinds, path \in FwdPaths : BackendRead(kind, path)
  \/ FwdRunning /\ ForwardReceive
  \/ FwdRunning /\ ForwardLookup
  \/ FwdRunning /\ ForwardSend
  \/ FwdRunning /\ ForwardDelete

SpecRewatch == InitForward /\ [][NextRewatch]_vars

\* the consumer has watched the path again, without error, after the
\* Delete event that the dispatcher still handles
Rewatched(path) ==
  /\ ReceivedDelete(path)
  /\ delivered[Len(delivered)].ev = dispatcher.ev
  /\ \E i \in DOMAIN results :
       /\ results[i].caller \in Consumers /\ results[i].op = "WatchPath"
       /\ results[i].path = path /\ results[i].result = "nil"

\* C38: the removal of the dispatcher on a Delete event leaves the entry
\* that the consumer installed for the path after it received the event
RewatchedEntrySurvives ==
  [][(dispatcher.pc = "delete" /\ dispatcher'.pc = "range"
        /\ Rewatched(Path(dispatcher.ev)))
       => Path(dispatcher.ev) \in DOMAIN pipelines']_vars


\* the calls that register a watch
RegisteringCalls == {"Watch", "WatchFlags", "WatchPath"}

\* a watch call returns an error in this step, and no watch call has
\* returned before: the tables were empty when the call started
FirstWatchFails ==
  /\ Len(results') = Len(results) + 1
  /\ results'[Len(results')].op \in RegisteringCalls
  /\ results'[Len(results')].result # "nil"
  /\ \A i \in DOMAIN results : results[i].op \notin RegisteringCalls

\* no filter flags, no directory watch, no open handle; no watch, no path
\* and no descriptor of the kqueue build
TablesEmpty ==
  /\ fsnFlags' = NoEntries
  /\ dirWatches' = NoEntries
  /\ \A i \in DOMAIN handles' : handles'[i] # "open"
  /\ watches' = NoEntries /\ paths' = NoEntries /\ finfo' = NoEntries
  /\ fds' = NoEntries

\* C39: a watch call that returns an error leaves the table of the filter
\* flags and the tables of the backend as they were before the call (here:
\* empty), with no entry for the path of the call
FailedWatchChangesNothing ==
  [][FirstWatchFails => TablesEmpty]_vars

\* the half of C39 that is about the kqueue build
BsdFailedWatchChangesNothing ==
  [][(build = "bsd" /\ FirstWatchFails) => TablesEmpty]_vars

\* the half of C39 about the tables of the Windows backend
WinFailedWatchKeepsBackend ==
  [][(build = "windows" /\ FirstWatchFails)
       => (dirWatches' = NoEntries /\ \A i \in DOMAIN handles' : handles'[i] # "open")]_vars


(***************************************************************************)
(* Events after an unwatch, kqueue build: goroutine 1 watches, goroutine 2 *)
(* unwatches, and the files change only after an unwatch has returned nil, *)
(* so that every kernel event is read after that return.                   *)
(***************************************************************************)
\* some RemoveWatch has returned nil
SomeUnwatched == \E path \in BsdWatchPaths : UnwatchedLast(path)

NextAfterUnwatch ==
  \/ BsdRunning /\ \E path \in BsdWatchPaths : BsdWatch(1, path, TRUE)
  \/ BsdRunning /\ \E c \in Unwatchers, path \in BsdWatchPaths, deleted \in BOOLEAN :
                      BsdRemoveWatch(c, path, deleted)
  \/ BsdRunning /\ SomeUnwatched /\ \E file \in BsdFiles : BsdFsCreate(file, MaxChanges)
  \/ BsdRunning /\ SomeUnwatched /\ \E file \in BsdFiles : BsdFsRemove(file, MaxChanges)
  \/ BsdRunning /\ SomeUnwatched /\ \E file \in BsdFiles : BsdFsWrite(file, MaxChanges)
  \/ BsdRunning /\ BsdPoll
  \/ BsdRunning /\ BsdKevent
  \/ BsdRunning /\ BsdFlush(TRUE)
  \/ BsdRunning /\ BsdSend
  \/ BsdRunning /\ BsdNextEvent(TRUE)

SpecAfterUnwatch == InitBsd /\ [][NextAfterUnwatch]_vars

\* the name is the path or a file of the directory path
Inside(name, path) == name = path \/ Dir(name) = path

\* C40: when RemoveWatch(path) has returned nil and the path was not
\* watched again, no event of the path or of a file of the directory path
\* that was read after the return is delivered on Event
NoEventAfterUnwatch ==
  \A path \in BsdWatchPaths :
    UnwatchedLast(path) =>
      \A i \in DOMAIN delivered : ~Inside(delivered[i].ev.Name, path)

\* the half of C40 that is about the events of the path itself
NoOwnEventAfterUnwatch ==
  \A path \in BsdWatchPaths :
    UnwatchedLast(path) =>
      \A i \in DOMAIN delivered : delivered[i].ev.Name # path

====
